---- MODULE Spec2Model ----
(***************************************************************************)
(* YaMDb API: the signup -> confirmation code -> token protocol, the user  *)
(* endpoints, the catalog (categories, titles) and the review and comment  *)
(* endpoints, as a state machine over the relational store.                *)
(*                                                                         *)
(* Text values (usernames, emails) are sequences of one-character strings  *)
(* so that the validators inspect them character by character as the code  *)
(* does.  The confirmation code of django.contrib.auth.tokens is modelled  *)
(* symbolically: the keyed hash is collision free, so a token is the pair  *)
(* of its clear timestamp and the tuple of values the hash is taken over   *)
(* (Django >= 3.1: pk, password, last_login, timestamp, email; password    *)
(* and last_login are written by no handler of the API and are left out).  *)
(***************************************************************************)
EXTENDS Integers, Sequences, FiniteSets, TLC

VARIABLES
    users,        \* rows of the User table
    last_pk,      \* the autoincrement counter of the User table
    outbox,       \* mails handed to send_mail: [to, code], and the pk of the
                  \* user the code was made for
    tokens,       \* pks for which a bearer token was issued
    exchanged,    \* [username, code] pairs that were exchanged for a token
    now,          \* the clock, in units of the token time window
    reviews,      \* rows of the Review table
    last_review,  \* the autoincrement counter of the Review table
    titles,       \* ids of the rows of the Title table
    inflight,     \* POSTs between validation and the INSERT, per worker
    categories,   \* slugs of the rows of the Category table
    category_of,  \* Title.category: the slug per title id, or Null
    last_title,   \* the autoincrement counter of the Title table
    comments,     \* rows of the Comment table
    last_comment, \* the autoincrement counter of the Comment table
    resp          \* the request handled by the last step and its response

vars == <<users, last_pk, outbox, tokens, exchanged, now,
          reviews, last_review, titles, inflight,
          categories, category_of, last_title, comments, last_comment, resp>>

authVars == <<users, last_pk, outbox, tokens, exchanged, now>>
reviewVars == <<reviews, last_review, titles, inflight>>
catalogVars == <<categories, category_of, last_title, comments, last_comment>>

----------------------------------------------------------------------------
(* Bounds of the model *)

MaxUsers == 2
MaxMail == 2
MaxTime == 2
MaxReviews == 2

----------------------------------------------------------------------------
(* reviews/constants.py *)

USER == "user"
MODERATOR == "moderator"
ADMIN == "admin"
ROLE_CHOICES == {USER, MODERATOR, ADMIN}
MAX_LENGTH_USERNAME == 150
MAX_LENGTH_EMAIL == 254
MIN_SCORE == 1
MAX_SCORE == 10
MAX_LENGTH_CONFIRMATION_CODE == 50

(* users/constants.py is not part of the sources; the two values are the    *)
(* reserved word and the username length of the specification.             *)
BANNED_USERNAME_users == <<"m", "e">>
MAX_LENGHT_FIELD == 150

(* django.contrib.auth.tokens: a token is valid for PASSWORD_RESET_TIMEOUT; *)
(* the clock of the model counts in that unit.  TokenLen is the length of  *)
(* the text of a token (timestamp, dash, 32 hex digits).                    *)
PASSWORD_RESET_TIMEOUT == 1
TokenLen == 39

----------------------------------------------------------------------------
(* Characters and text *)

LowerLetters == <<"a","b","c","d","e","f","g","h","i","j","k","l","m",
                  "n","o","p","q","r","s","t","u","v","w","x","y","z">>
UpperLetters == <<"A","B","C","D","E","F","G","H","I","J","K","L","M",
                  "N","O","P","Q","R","S","T","U","V","W","X","Y","Z">>
Digits == {"0","1","2","3","4","5","6","7","8","9"}

Range(s) == {s[i] : i \in DOMAIN s}
AsciiLetters == Range(LowerLetters) \cup Range(UpperLetters)

\* str.lower()
lower(s) ==
    [i \in DOMAIN s |->
        IF \E k \in DOMAIN UpperLetters : UpperLetters[k] = s[i]
        THEN LowerLetters[CHOOSE k \in DOMAIN UpperLetters : UpperLetters[k] = s[i]]
        ELSE s[i]]

\* the character class [\w.@+-]
UsernameChar(c) == c \in AsciiLetters \cup Digits \cup {"_", ".", "@", "+", "-"}

\* the character class [-a-zA-Z0-9_] of rest_framework's SlugField
SlugChar(c) == c \in AsciiLetters \cup Digits \cup {"_", "-"}

\* django's EmailValidator, reduced to: one "@", a non-empty local part, a
\* domain with an inner dot, no character outside the username class
EmailSyntax(e) ==
    /\ Cardinality({i \in DOMAIN e : e[i] = "@"}) = 1
    /\ \A i \in DOMAIN e : UsernameChar(e[i])
    /\ LET at == CHOOSE i \in DOMAIN e : e[i] = "@"
       IN  /\ at > 1
           /\ \E d \in (at + 2)..(Len(e) - 1) : e[d] = "."
           /\ e[Len(e)] # "." /\ e[at + 1] # "."

\* the characters of the model in code point order, for ORDER BY username
CodePoints == <<" ", "+", "-", ".">> \o <<"0","1","2","3","4","5","6","7","8","9">>
              \o <<"@">> \o UpperLetters \o <<"_">> \o LowerLetters

Ord(c) == CHOOSE i \in DOMAIN CodePoints : CodePoints[i] = c

RECURSIVE TextLess(_, _)
TextLess(s, t) ==
    IF s = <<>> THEN t # <<>>
    ELSE IF t = <<>> THEN FALSE
    ELSE IF Head(s) # Head(t) THEN Ord(Head(s)) < Ord(Head(t))
    ELSE TextLess(Tail(s), Tail(t))

----------------------------------------------------------------------------
(* reviews/validators.py *)

BANNED_USERNAME == {<<"m", "e">>}

\* validate_username: "ok" when the username is returned, else the error raised
validate_username(username) ==
    IF lower(username) \in BANNED_USERNAME THEN "banned"
    ELSE IF ~(username # <<>> /\ \A i \in DOMAIN username : UsernameChar(username[i]))
         THEN "chars"
    ELSE "ok"

----------------------------------------------------------------------------
(* reviews/models.py: User *)

is_admin(user) == user.role = ADMIN \/ user.is_staff

is_moderator(user) == user.role = MODERATOR

\* users/models.py: User.is_admin of the earlier revision
is_admin_users(user) == user.role = ADMIN \/ user.is_staff \/ user.is_superuser

NewUser(pk, username, email) ==
    [pk |-> pk, username |-> username, email |-> email, role |-> USER,
     is_staff |-> FALSE, is_superuser |-> FALSE]

ByUsername(username) == {u \in users : u.username = username}
ByEmail(email) == {u \in users : u.email = email}
ByPk(pk) == {u \in users : u.pk = pk}

\* QuerySet.first() under Meta.ordering = ('username',); the set is not empty
FirstByUsername(S) == CHOOSE u \in S : \A v \in S : v = u \/ TextLess(u.username, v.username)

----------------------------------------------------------------------------
(* django.contrib.auth.tokens.default_token_generator, as called by the    *)
(* views                                                                   *)

\* the hash taken without the primary key
make_hash_value_no_pk(user, timestamp) == <<0, timestamp, user.email>>

\* the hash of Django before 3.1, taken without the email
make_hash_value_no_email(user, timestamp) == <<user.pk, timestamp, <<>> >>

make_hash_value(user, timestamp) == <<user.pk, timestamp, user.email>>

make_token_with_timestamp(user, timestamp) ==
    [ts |-> timestamp, hash |-> make_hash_value(user, timestamp)]

make_token(user) == make_token_with_timestamp(user, now)

\* text that is not a token: only its length matters
Junk(n) == [junk |-> n]
IsToken(code) == "ts" \in DOMAIN code
CodeLen(code) == IF IsToken(code) THEN TokenLen ELSE code.junk

check_token(user, token) ==
    /\ IsToken(token)
    /\ make_token_with_timestamp(user, token.ts) = token
    /\ now - token.ts <= PASSWORD_RESET_TIMEOUT

----------------------------------------------------------------------------
(* api/serializers.py *)

\* the keys of serializer.errors are collected field by field
Key(name, failed) == IF failed THEN {name} ELSE {}

\* LoginSerializer.username: SlugField(max_length) and validate_username
LoginSerializer_username(username) ==
    \/ username = <<>>
    \/ Len(username) > MAX_LENGTH_USERNAME
    \/ \E i \in DOMAIN username : ~SlugChar(username[i])
    \/ validate_username(username) # "ok"

\* LoginSerializer.email: EmailField(max_length)
LoginSerializer_email(email) ==
    \/ email = <<>>
    \/ Len(email) > MAX_LENGTH_EMAIL
    \/ ~EmailSyntax(email)

\* LoginSerializer.validate without its second test
LoginSerializer_validate_email_only(username, email) ==
    LET found == ByUsername(username) \cup ByEmail(email)
    IN  IF found = {} THEN FALSE
        ELSE FirstByUsername(found).email # email

\* LoginSerializer.validate: TRUE when it raises ValidationError
LoginSerializer_validate(username, email) ==
    LET found == ByUsername(username) \cup ByEmail(email)
    IN  IF found = {} THEN FALSE
        ELSE LET user == FirstByUsername(found)
             IN  IF user.email # email THEN TRUE
                 ELSE IF user.username # username THEN TRUE
                 ELSE FALSE

\* LoginSerializer.is_valid(): the keys of serializer.errors; validate() runs
\* only when no field failed
LoginSerializer_errors(username, email) ==
    LET fields == Key("username", LoginSerializer_username(username))
                  \cup Key("email", LoginSerializer_email(email))
    IN  IF fields # {} THEN fields
        ELSE Key("non_field_errors", LoginSerializer_validate(username, email))

\* TokenSerializer with confirmation_code declared without max_length
TokenSerializer_errors_no_length(username, code) ==
    Key("username", username = <<>> \/ validate_username(username) # "ok")
    \cup Key("confirmation_code", CodeLen(code) = 0)

\* TokenSerializer.is_valid(): the keys of serializer.errors
TokenSerializer_errors(username, code) ==
    Key("username", username = <<>> \/ validate_username(username) # "ok")
    \cup Key("confirmation_code",
             CodeLen(code) = 0 \/ CodeLen(code) > MAX_LENGTH_CONFIRMATION_CODE)

\* UserSerializer / AdminUsersSerializer on an instance with partial=True:
\* data holds the submitted fields only; role is read only unless admin
UserSerializer_errors(instance, data, admin) ==
    Key("username",
        /\ "username" \in DOMAIN data
        /\ \/ data.username = <<>>
           \/ Len(data.username) > MAX_LENGTH_USERNAME
           \/ validate_username(data.username) # "ok"
           \/ \E u \in ByUsername(data.username) : u.pk # instance.pk)
    \cup Key("email",
        /\ "email" \in DOMAIN data
        /\ \/ LoginSerializer_email(data.email)
           \/ \E u \in ByEmail(data.email) : u.pk # instance.pk)
    \cup Key("role",
        /\ admin
        /\ "role" \in DOMAIN data
        /\ data.role \notin ROLE_CHOICES)

\* ModelSerializer.update with role writable in both serializers
UserSerializer_update_role_writable(instance, data, admin) ==
    [instance EXCEPT
        !.username = IF "username" \in DOMAIN data THEN data.username ELSE @,
        !.email = IF "email" \in DOMAIN data THEN data.email ELSE @,
        !.role = IF "role" \in DOMAIN data THEN data.role ELSE @]

\* ModelSerializer.update: the instance with the validated fields set
UserSerializer_update(instance, data, admin) ==
    [instance EXCEPT
        !.username = IF "username" \in DOMAIN data THEN data.username ELSE @,
        !.email = IF "email" \in DOMAIN data THEN data.email ELSE @,
        !.role = IF admin /\ "role" \in DOMAIN data THEN data.role ELSE @]

----------------------------------------------------------------------------
(* users/serializers.py *)

\* CreateUserSerializer.is_valid(): instance_pk is 0 on create
CreateUserSerializer_errors(instance_pk, username, email) ==
    Key("username",
        \/ username = <<>>
        \/ Len(username) > MAX_LENGHT_FIELD
        \/ \E i \in DOMAIN username : ~UsernameChar(username[i])
        \/ \E u \in ByUsername(username) : u.pk # instance_pk
        \/ lower(username) = BANNED_USERNAME_users)
    \cup Key("email",
        \/ email = <<>>
        \/ Len(email) > MAX_LENGHT_FIELD
        \/ ~EmailSyntax(email)
        \/ \E u \in ByEmail(email) : u.pk # instance_pk)

\* RecieveTokenSerializer.is_valid()
RecieveTokenSerializer_errors(username, code) ==
    Key("username", username = <<>> \/ Len(username) > MAX_LENGHT_FIELD)
    \cup Key("confirmation_code",
             CodeLen(code) = 0 \/ CodeLen(code) > MAX_LENGHT_FIELD)

----------------------------------------------------------------------------
(* Requests.  Every step records the request it handled and the response   *)
(* in resp.                                                                *)

Anonymous == 0

\* the mail transport of the model keeps at most MaxMail distinct mails
Deliverable(mail) == mail \in outbox \/ Cardinality(outbox) < MaxMail

TheUser(username) == CHOOSE u \in users : u.username = username

\* api/utils.py: send_confirmation_code(request); the user exists
send_confirmation_code(username, email) ==
    [to |-> email, code |-> make_token(TheUser(username)),
     user |-> TheUser(username).pk]

\* the existence test of ApiUserSignup.post written with a slip
Registered_slip(username, email) ==
    \E u \in users : u.username = username /\ u.email = username

\* ApiUserSignup.post, CreateUserViewSet.create: a user with this username
\* and this email exists
Registered(username, email) ==
    \E u \in users : u.username = username /\ u.email = email

\* api/views.py: ApiUserSignup.post
ApiUserSignup_post(username, email) ==
    LET request == [op |-> "signup", view |-> "ApiUserSignup",
                    username |-> username, email |-> email]
    IN
    /\ IF Registered(username, email)
       THEN LET mail == send_confirmation_code(username, email)
            IN  /\ Deliverable(mail)
                /\ outbox' = outbox \cup {mail}
                /\ resp' = [request |-> request, status |-> 200,
                            body |-> {"username", "email"},
                            data |-> [username |-> username, email |-> email],
                            mail |-> {mail}]
       ELSE IF LoginSerializer_errors(username, email) # {}
       THEN /\ outbox' = outbox
            /\ resp' = [request |-> request, status |-> 400,
                        body |-> LoginSerializer_errors(username, email),
                        mail |-> {}]
       \* serializer.save(): LoginSerializer defines no create(), the call
       \* raises NotImplementedError and the request ends as a server error
       ELSE /\ outbox' = outbox
            /\ resp' = [request |-> request, status |-> 500, body |-> {},
                        raised |-> "NotImplementedError", mail |-> {}]
    /\ UNCHANGED <<users, last_pk, tokens, exchanged, now>>
    /\ UNCHANGED reviewVars
    /\ UNCHANGED catalogVars

\* users/views.py: CreateUserViewSet.create
CreateUserViewSet_create(username, email) ==
    LET request == [op |-> "signup", view |-> "CreateUserViewSet",
                    username |-> username, email |-> email]
        registered == Registered(username, email)
        instance_pk == IF registered THEN TheUser(username).pk ELSE 0
        errors == CreateUserSerializer_errors(instance_pk, username, email)
    IN
    /\ IF errors # {}
       THEN /\ UNCHANGED <<users, last_pk, outbox>>
            /\ resp' = [request |-> request, status |-> 400, body |-> errors,
                        mail |-> {}]
       ELSE LET saved == IF registered
                         THEN [TheUser(username) EXCEPT !.username = username,
                                                        !.email = email]
                         ELSE NewUser(last_pk + 1, username, email)
                mail == [to |-> saved.email, code |-> make_token(saved),
                         user |-> saved.pk]
            IN  /\ registered \/ last_pk < MaxUsers
                /\ Deliverable(mail)
                /\ users' = {u \in users : u.pk # saved.pk} \cup {saved}
                /\ last_pk' = IF registered THEN last_pk ELSE last_pk + 1
                /\ outbox' = outbox \cup {mail}
                /\ resp' = [request |-> request, status |-> 200,
                            body |-> {"username", "email"},
                            data |-> [username |-> saved.username,
                                      email |-> saved.email],
                            mail |-> {mail}]
    /\ UNCHANGED <<tokens, exchanged, now>>
    /\ UNCHANGED reviewVars
    /\ UNCHANGED catalogVars

\* the bookkeeping of a token handed out for (username, code)
IssueToken(user, username, code) ==
    /\ tokens' = tokens \cup {user.pk}
    /\ exchanged' = exchanged \cup {[username |-> username, code |-> code]}

\* the response that carries a token; again tells whether the same
\* (username, code) had been exchanged for a token before
TokenResponse(request, user) ==
    [request |-> request, status |-> 200, body |-> {"token"},
     token |-> user.pk,
     again |-> [username |-> request.username, code |-> request.code]
               \in exchanged]

\* the test of GetApiToken.post run against every user instead of the one
\* named in the request
GetApiToken_check_any_user(username, code) ==
    \E u \in users : check_token(u, code)

\* the test of GetApiToken.post, refusing a code that was exchanged before
GetApiToken_check_single_use(username, code) ==
    /\ check_token(TheUser(username), code)
    /\ [username |-> username, code |-> code] \notin exchanged

\* GetApiToken.post: the test of the submitted code; the user exists
GetApiToken_check(username, code) == check_token(TheUser(username), code)

\* api/views.py: GetApiToken.post
GetApiToken_post(username, code) ==
    LET request == [op |-> "token", view |-> "GetApiToken",
                    username |-> username, code |-> code]
        errors == TokenSerializer_errors(username, code)
    IN
    /\ IF errors # {}
       THEN /\ UNCHANGED <<tokens, exchanged>>
            /\ resp' = [request |-> request, status |-> 400, body |-> errors]
       ELSE IF ByUsername(username) = {}
       THEN /\ UNCHANGED <<tokens, exchanged>>
            /\ resp' = [request |-> request, status |-> 404, body |-> {"detail"}]
       ELSE IF GetApiToken_check(username, code)
       THEN /\ IssueToken(TheUser(username), username, code)
            /\ resp' = TokenResponse(request, TheUser(username))
       ELSE /\ UNCHANGED <<tokens, exchanged>>
            /\ resp' = [request |-> request, status |-> 400,
                        body |-> {"confirmation_code"}]
    /\ UNCHANGED <<users, last_pk, outbox, now>>
    /\ UNCHANGED reviewVars
    /\ UNCHANGED catalogVars

\* users/views.py: ReceiveTokenViewSet.create
ReceiveTokenViewSet_create(username, code) ==
    LET request == [op |-> "token", view |-> "ReceiveTokenViewSet",
                    username |-> username, code |-> code]
        errors == RecieveTokenSerializer_errors(username, code)
    IN
    /\ IF errors # {}
       THEN /\ UNCHANGED <<tokens, exchanged>>
            /\ resp' = [request |-> request, status |-> 400, body |-> errors]
       ELSE IF ByUsername(username) = {}
       THEN /\ UNCHANGED <<tokens, exchanged>>
            /\ resp' = [request |-> request, status |-> 404, body |-> {"detail"}]
       ELSE IF ~check_token(TheUser(username), code)
       THEN /\ UNCHANGED <<tokens, exchanged>>
            /\ resp' = [request |-> request, status |-> 400,
                        body |-> {"confirmation_code"}]
       ELSE /\ IssueToken(TheUser(username), username, code)
            /\ resp' = TokenResponse(request, TheUser(username))
    /\ UNCHANGED <<users, last_pk, outbox, now>>
    /\ UNCHANGED reviewVars
    /\ UNCHANGED catalogVars

\* the bearer authentication: the user of a token issued earlier, if the row
\* still exists
Authenticated(pk) == pk \in tokens /\ ByPk(pk) # {}
TheActor(pk) == CHOOSE u \in users : u.pk = pk

\* api/views.py: UserViewSet.get_patch_user_info with method PATCH
get_patch_user_info(actor, data) ==
    LET request == [op |-> "patch_me", view |-> "UserViewSet",
                    actor |-> actor, data |-> data]
    IN
    /\ actor = Anonymous \/ Authenticated(actor)
    /\ IF actor = Anonymous
       THEN /\ users' = users
            /\ resp' = [request |-> request, status |-> 401, body |-> {"detail"}]
       ELSE LET user == TheActor(actor)
                admin == is_admin(user)
                errors == UserSerializer_errors(user, data, admin)
                saved == UserSerializer_update(user, data, admin)
            IN  IF errors # {}
                THEN /\ users' = users
                     /\ resp' = [request |-> request, status |-> 400,
                                 body |-> errors]
                ELSE /\ users' = (users \ {user}) \cup {saved}
                     /\ resp' = [request |-> request, status |-> 200,
                                 body |-> {"username", "email", "role"},
                                 data |-> [username |-> saved.username,
                                           email |-> saved.email,
                                           role |-> saved.role]]
    /\ UNCHANGED <<last_pk, outbox, tokens, exchanged, now>>
    /\ UNCHANGED reviewVars
    /\ UNCHANGED catalogVars

\* api/views.py: UserViewSet.partial_update on /users/{username}
UserViewSet_partial_update(actor, username, data) ==
    LET request == [op |-> "patch_user", view |-> "UserViewSet",
                    actor |-> actor, username |-> username, data |-> data]
    IN
    /\ actor = Anonymous \/ Authenticated(actor)
    /\ IF actor = Anonymous
       THEN /\ users' = users
            /\ resp' = [request |-> request, status |-> 401, body |-> {"detail"}]
       ELSE IF ~is_admin(TheActor(actor))
       THEN /\ users' = users
            /\ resp' = [request |-> request, status |-> 403, body |-> {"detail"}]
       ELSE IF ByUsername(username) = {}
       THEN /\ users' = users
            /\ resp' = [request |-> request, status |-> 404, body |-> {"detail"}]
       ELSE LET user == TheUser(username)
                errors == UserSerializer_errors(user, data, TRUE)
                saved == UserSerializer_update(user, data, TRUE)
            IN  IF errors # {}
                THEN /\ users' = users
                     /\ resp' = [request |-> request, status |-> 400,
                                 body |-> errors]
                ELSE /\ users' = (users \ {user}) \cup {saved}
                     /\ resp' = [request |-> request, status |-> 200,
                                 body |-> {"username", "email", "role"},
                                 data |-> [username |-> saved.username,
                                           email |-> saved.email,
                                           role |-> saved.role]]
    /\ UNCHANGED <<last_pk, outbox, tokens, exchanged, now>>
    /\ UNCHANGED reviewVars
    /\ UNCHANGED catalogVars

\* the passage of one token time window
Tick ==
    /\ now < MaxTime
    /\ now' = now + 1
    /\ resp' = [request |-> [op |-> "tick"], status |-> 0, body |-> {}]
    /\ UNCHANGED <<users, last_pk, outbox, tokens, exchanged>>
    /\ UNCHANGED reviewVars
    /\ UNCHANGED catalogVars

----------------------------------------------------------------------------
(* api/permissions.py *)

\* IsAdmin.has_permission reading the role from a claim stamped into the
\* token when it was issued: the accounts 1 and 2 were admin then
IsAdmin_role_of_token(actor) == actor \in {1, 2}

\* IsAdmin.has_permission; actor is Anonymous or the pk of the request's user
IsAdmin(actor) == actor # Anonymous /\ is_admin(TheActor(actor))

SAFE_METHODS == {"GET", "HEAD", "OPTIONS"}

\* IsAdminOrReadOnly.has_permission letting every authenticated user write
IsAdminOrReadOnly_authenticated(actor, method) ==
    actor # Anonymous \/ method \in SAFE_METHODS

\* IsAdminOrReadOnly.has_permission
IsAdminOrReadOnly(actor, method) == IsAdmin(actor) \/ method \in SAFE_METHODS

\* IsAuthorOrModeratorsOrReadOnly.has_object_permission without the test of
\* the author
IsAuthorOrModeratorsOrReadOnly_no_author(actor, method, obj) ==
    \/ IsAdminOrReadOnly(actor, method)
    \/ (actor # Anonymous /\ is_moderator(TheActor(actor)))

\* IsAuthorOrModeratorsOrReadOnly.has_object_permission; the actor passed
\* IsAuthenticatedOrReadOnly before
IsAuthorOrModeratorsOrReadOnly(actor, method, obj) ==
    \/ IsAdminOrReadOnly(actor, method)
    \/ (actor # Anonymous /\ is_moderator(TheActor(actor)))
    \/ obj.author = actor

\* the views without IsAuthenticatedOrReadOnly in their permission_classes
IsAuthenticatedOrReadOnly_allow_any(actor, method) == TRUE

\* rest_framework IsAuthenticatedOrReadOnly
IsAuthenticatedOrReadOnly(actor, method) ==
    method \in SAFE_METHODS \/ actor # Anonymous

----------------------------------------------------------------------------
(* Reviews: api/serializers.py ReviewSerializer, api/views.py ReviewViewSet *)

Blank == <<>>

\* the NULL of a nullable column
Null == "null"

\* ReviewSerializer fields on create: text and score are required; data
\* holds the submitted fields only
ReviewSerializer_fields(data, partial) ==
    Key("text", IF "text" \in DOMAIN data THEN data.text = Blank ELSE ~partial)
    \cup Key("score", IF "score" \in DOMAIN data
                      THEN data.score < MIN_SCORE \/ data.score > MAX_SCORE
                      ELSE ~partial)

\* ReviewSerializer.validate with the pre-check run for the wrong method
ReviewSerializer_validate_wrong_method(method, actor, title_id) ==
    /\ method = "PATCH"
    /\ \E r \in reviews : r.author = actor /\ r.title = title_id

\* ReviewSerializer.validate: TRUE when it raises ValidationError
ReviewSerializer_validate(method, actor, title_id) ==
    /\ method = "POST"
    /\ \E r \in reviews : r.author = actor /\ r.title = title_id

ReviewSerializer_errors(method, actor, title_id, data) ==
    LET fields == ReviewSerializer_fields(data, method = "PATCH")
    IN  IF fields # {} THEN fields
        ELSE Key("non_field_errors", ReviewSerializer_validate(method, actor, title_id))

\* the UniqueConstraint unique_review of Review.Meta: TRUE when the INSERT
\* of a row for (title, author) violates it
unique_review(title_id, author) ==
    \E r \in reviews : r.title = title_id /\ r.author = author

Idle(w) == \A q \in inflight : q.worker # w

\* ReviewViewSet.create up to and including serializer.is_valid(): the
\* permission checks and the validation, run by worker w
ReviewViewSet_create(w, actor, title_id, data) ==
    LET request == [op |-> "review_post", worker |-> w, actor |-> actor,
                    title_id |-> title_id, data |-> data]
        errors == ReviewSerializer_errors("POST", actor, title_id, data)
    IN
    /\ Idle(w)
    /\ actor = Anonymous \/ Authenticated(actor)
    /\ IF ~IsAuthenticatedOrReadOnly(actor, "POST")
       THEN /\ inflight' = inflight
            /\ resp' = [request |-> request, status |-> 401, body |-> {"detail"}]
       ELSE IF errors # {}
       THEN /\ inflight' = inflight
            /\ resp' = [request |-> request, status |-> 400, body |-> errors]
       ELSE /\ inflight' = inflight \cup
                    {[worker |-> w, author |-> actor, title_id |-> title_id,
                      data |-> data]}
            /\ resp' = [request |-> request, status |-> 0, body |-> {}]
    /\ UNCHANGED <<reviews, last_review, titles>>
    /\ UNCHANGED catalogVars
    /\ UNCHANGED authVars

\* ReviewViewSet.perform_create: get_title() and serializer.save(), the
\* INSERT; an IntegrityError of the store is caught nowhere
ReviewViewSet_perform_create(w) ==
    \E q \in inflight :
        LET request == [op |-> "review_post", worker |-> w, actor |-> q.author,
                        title_id |-> q.title_id, data |-> q.data]
        IN
        /\ q.worker = w
        /\ inflight' = inflight \ {q}
        /\ IF q.title_id \notin titles
           THEN /\ UNCHANGED <<reviews, last_review>>
                /\ resp' = [request |-> request, status |-> 404,
                            body |-> {"detail"}]
           ELSE IF unique_review(q.title_id, q.author)
           THEN /\ UNCHANGED <<reviews, last_review>>
                /\ resp' = [request |-> request, status |-> 500,
                            body |-> {}, raised |-> "IntegrityError"]
           ELSE /\ last_review < MaxReviews
                /\ reviews' = reviews \cup
                       {[id |-> last_review + 1, title |-> q.title_id,
                         author |-> q.author, score |-> q.data.score,
                         text |-> q.data.text]}
                /\ last_review' = last_review + 1
                /\ resp' = [request |-> request, status |-> 201,
                            body |-> {"id", "text", "author", "score", "pub_date"},
                            data |-> [id |-> last_review + 1]]
        /\ UNCHANGED titles
        /\ UNCHANGED authVars
        /\ UNCHANGED catalogVars

\* ReviewViewSet.get_object: the review of the title with the id, if any
ReviewOf(title_id, review_id) ==
    {r \in reviews : r.title = title_id /\ r.id = review_id /\ title_id \in titles}

\* ReviewViewSet.partial_update
ReviewViewSet_partial_update(actor, title_id, review_id, data) ==
    LET request == [op |-> "review_patch", actor |-> actor,
                    title_id |-> title_id, review_id |-> review_id,
                    data |-> data]
        found == ReviewOf(title_id, review_id)
    IN
    /\ actor = Anonymous \/ Authenticated(actor)
    /\ IF ~IsAuthenticatedOrReadOnly(actor, "PATCH")
       THEN /\ reviews' = reviews
            /\ resp' = [request |-> request, status |-> 401, body |-> {"detail"}]
       ELSE IF found = {}
       THEN /\ reviews' = reviews
            /\ resp' = [request |-> request, status |-> 404, body |-> {"detail"}]
       ELSE LET obj == CHOOSE r \in found : TRUE
                errors == ReviewSerializer_errors("PATCH", actor, title_id, data)
                saved == [obj EXCEPT
                    !.text = IF "text" \in DOMAIN data THEN data.text ELSE @,
                    !.score = IF "score" \in DOMAIN data THEN data.score ELSE @]
            IN  IF ~IsAuthorOrModeratorsOrReadOnly(actor, "PATCH", obj)
                THEN /\ reviews' = reviews
                     /\ resp' = [request |-> request, status |-> 403,
                                 body |-> {"detail"}]
                ELSE IF errors # {}
                THEN /\ reviews' = reviews
                     /\ resp' = [request |-> request, status |-> 400,
                                 body |-> errors]
                ELSE /\ reviews' = (reviews \ {obj}) \cup {saved}
                     /\ resp' = [request |-> request, status |-> 200,
                                 body |-> {"id", "text", "author", "score", "pub_date"},
                                 data |-> [id |-> saved.id]]
    /\ UNCHANGED <<last_review, titles, inflight>>
    /\ UNCHANGED authVars
    /\ UNCHANGED catalogVars

\* ReviewViewSet.destroy
ReviewViewSet_destroy(actor, title_id, review_id) ==
    LET request == [op |-> "review_delete", actor |-> actor,
                    title_id |-> title_id, review_id |-> review_id]
        found == ReviewOf(title_id, review_id)
    IN
    /\ actor = Anonymous \/ Authenticated(actor)
    /\ IF ~IsAuthenticatedOrReadOnly(actor, "DELETE")
       THEN /\ reviews' = reviews
            /\ resp' = [request |-> request, status |-> 401, body |-> {"detail"}]
       ELSE IF found = {}
       THEN /\ reviews' = reviews
            /\ resp' = [request |-> request, status |-> 404, body |-> {"detail"}]
       ELSE LET obj == CHOOSE r \in found : TRUE
            IN  IF ~IsAuthorOrModeratorsOrReadOnly(actor, "DELETE", obj)
                THEN /\ reviews' = reviews
                     /\ resp' = [request |-> request, status |-> 403,
                                 body |-> {"detail"}]
                ELSE /\ reviews' = reviews \ {obj}
                     /\ resp' = [request |-> request, status |-> 204,
                                 body |-> {}]
    \* Comment.review is on_delete=CASCADE
    /\ comments' = {c \in comments : \E r \in reviews' : r.id = c.review}
    /\ UNCHANGED <<last_review, titles, inflight>>
    /\ UNCHANGED authVars
    /\ UNCHANGED <<categories, category_of, last_title, last_comment>>

----------------------------------------------------------------------------
(* Inputs of the requests *)

Root == <<"r", "o", "o", "t">>
Al == <<"a", "l">>
DotName == <<"a", ".", "b">>
Me == <<"m", "e">>
MeCapital == <<"M", "e">>
Spaced == <<"a", " ", "b">>
TooLong == [i \in 1..(MAX_LENGTH_USERNAME + 1) |-> "a"]

RootMail == <<"r", "@", "x", ".", "y">>
AlMail == <<"a", "@", "x", ".", "y">>
OtherMail == <<"b", "@", "x", ".", "y">>
NoMail == <<"a", ".", "x">>

SignupUsernames == {Root, Al, DotName, Me, MeCapital, Spaced, <<>>, TooLong}
SignupEmails == {RootMail, AlMail, OtherMail, NoMail}

ProtocolSignups == {<<Root, RootMail>>, <<Al, AlMail>>, <<Root, AlMail>>}
ProtocolUsernames == {Root, Al}
MailedCodes == {m.code : m \in outbox}
JunkCodes == {Junk(8), Junk(MAX_LENGTH_CONFIRMATION_CODE + 1)}
EmailPatches == {[email |-> e] : e \in {RootMail, OtherMail}}

\* the account made by manage.py createsuperuser
Superuser ==
    [pk |-> 1, username |-> Root, email |-> RootMail, role |-> USER,
     is_staff |-> TRUE, is_superuser |-> TRUE]

----------------------------------------------------------------------------
(* Specifications *)

Init ==
    /\ users = {Superuser}
    /\ last_pk = 1
    /\ outbox = {}
    /\ tokens = {}
    /\ exchanged = {}
    /\ now = 0
    /\ reviews = {}
    /\ last_review = 0
    /\ titles = {}
    /\ inflight = {}
    /\ categories = {}
    /\ category_of = <<>>
    /\ last_title = 0
    /\ comments = {}
    /\ last_comment = 0
    /\ resp = [request |-> [op |-> "init"], status |-> 0, body |-> {}]

\* the signup -> code -> token protocol and the changes of a user's email
Next ==
    \/ \E signup \in ProtocolSignups : ApiUserSignup_post(signup[1], signup[2])
    \/ \E signup \in ProtocolSignups : CreateUserViewSet_create(signup[1], signup[2])
    \/ \E username \in ProtocolUsernames, code \in MailedCodes \cup {Junk(8)} :
           GetApiToken_post(username, code)
    \/ \E username \in ProtocolUsernames, code \in MailedCodes \cup {Junk(8)} :
           ReceiveTokenViewSet_create(username, code)
    \/ \E actor \in tokens, data \in EmailPatches :
           get_patch_user_info(actor, data)
    \/ \E actor \in tokens, username \in ProtocolUsernames, data \in EmailPatches :
           UserViewSet_partial_update(actor, username, data)
    \/ Tick

Spec == Init /\ [][Next]_vars

\* the token endpoint over well formed and malformed requests, for known
\* and unknown usernames
NextToken ==
    \/ \E signup \in ProtocolSignups : ApiUserSignup_post(signup[1], signup[2])
    \/ \E signup \in ProtocolSignups : CreateUserViewSet_create(signup[1], signup[2])
    \/ \E username \in {Root, Al, Me, Spaced}, code \in MailedCodes \cup JunkCodes :
           GetApiToken_post(username, code)
    \/ \E username \in {Root, Al, Me, Spaced}, code \in MailedCodes \cup JunkCodes :
           ReceiveTokenViewSet_create(username, code)
    \/ Tick

SpecToken == Init /\ [][NextToken]_vars

\* signup alone, over the whole range of usernames and emails
NextSignup ==
    \/ \E username \in SignupUsernames, email \in SignupEmails :
           ApiUserSignup_post(username, email)
    \/ \E username \in SignupUsernames, email \in SignupEmails :
           CreateUserViewSet_create(username, email)

SpecSignup == Init /\ [][NextSignup]_vars

----------------------------------------------------------------------------
(* The review endpoints, with concurrent POSTs *)

AlUser == NewUser(2, Al, AlMail)
Moderator == [NewUser(3, DotName, OtherMail) EXCEPT !.role = MODERATOR]

T1 == <<"o", "k">>
T2 == <<"b", "a", "d">>

ReviewPosts == {[text |-> T1, score |-> MIN_SCORE],
                [text |-> T2, score |-> MAX_SCORE + 1]}
ReviewPatches == {[score |-> MAX_SCORE], [score |-> MIN_SCORE - 1]}

\* two requests in service at a time are enough for a race
Workers == {"w1", "w2"}

\* three accounts holding bearer tokens and two titles
InitReview ==
    /\ users = {Superuser, AlUser, Moderator}
    /\ last_pk = 3
    /\ outbox = {}
    /\ tokens = {1, 2, 3}
    /\ exchanged = {}
    /\ now = 0
    /\ reviews = {}
    /\ last_review = 0
    /\ titles = {1, 2}
    /\ inflight = {}
    /\ categories = {}
    /\ category_of = [t \in {1, 2} |-> Null]
    /\ last_title = 2
    /\ comments = {}
    /\ last_comment = 0
    /\ resp = [request |-> [op |-> "init"], status |-> 0, body |-> {}]

NextReview ==
    \/ \E w \in Workers, actor \in {2, 3}, title_id \in titles,
          data \in ReviewPosts :
           ReviewViewSet_create(w, actor, title_id, data)
    \/ \E w \in Workers : ReviewViewSet_perform_create(w)
    \/ \E actor \in {2, 3}, title_id \in titles, review_id \in 1..MaxReviews,
          data \in ReviewPatches :
           ReviewViewSet_partial_update(actor, title_id, review_id, data)
    \/ \E actor \in {2, 3}, title_id \in titles, review_id \in 1..MaxReviews :
           ReviewViewSet_destroy(actor, title_id, review_id)

SpecReview == InitReview /\ [][NextReview]_vars

----------------------------------------------------------------------------
(* Claims on the reviews *)

Op == resp.request.op

\* at most one row of Review per (title, author)
ReviewUnique ==
    \A r1, r2 \in reviews :
        (r1.title = r2.title /\ r1.author = r2.author) => r1 = r2

\* the step is the arrival of a review POST of a user who has a review of
\* the title already
DuplicatePost ==
    /\ resp'.request.op = "review_post"
    /\ Idle(resp'.request.worker)
    /\ \E r \in reviews : /\ r.title = resp'.request.title_id
                          /\ r.author = resp'.request.actor

\* C1: in every reachable state there is at most one review per (title,
\* author), and the POST of a user who has a review of the title already is
\* answered 400 and creates nothing, whatever score and text it carries.
C1_OneReviewPerTitleAndAuthor ==
    /\ []ReviewUnique
    /\ [][DuplicatePost => /\ resp'.status = 400
                           /\ reviews' = reviews
                           /\ inflight' = inflight
                           /\ last_review' = last_review]_vars

\* a second POST was rejected by the pre-check while two reviews exist
C1_Witness ==
    /\ Op = "review_post"
    /\ resp.status = 400
    /\ "non_field_errors" \in resp.body
    /\ Cardinality(reviews) = 2
    /\ \E r \in reviews : /\ r.title = resp.request.title_id
                          /\ r.author = resp.request.actor

\* the step is the INSERT of a validated review POST that finds a review of
\* the same (title, author) written since the validation
RaceLoser ==
    /\ resp'.request.op = "review_post"
    /\ ~Idle(resp'.request.worker)
    /\ resp'.request.title_id \in titles
    /\ unique_review(resp'.request.title_id, resp'.request.actor)

\* C2: the POST that loses the race and hits the uniqueness constraint ends
\* with the conflict response of a sequential duplicate POST (400 with
\* non_field_errors), never with an unhandled storage error.
C2_RaceLoserGetsConflict ==
    [][RaceLoser => /\ resp'.status = 400
                    /\ resp'.body = {"non_field_errors"}]_vars

----------------------------------------------------------------------------
(* Claims on the confirmation code and the token endpoint *)

\* the step handled a token request; it answered with a token
TokenRequest == resp'.request.op = "token"
TokenIssued == TokenRequest /\ resp'.status = 200

KnownUser(username) == ByUsername(username) # {}

\* C3: the token endpoint answers with a token only when the submitted code
\* verifies for the user named in the request, and the token is that user's.
C3_TokenOnlyForVerifiedCode ==
    [][TokenIssued =>
         \E u \in users : /\ u.username = resp'.request.username
                          /\ check_token(u, resp'.request.code)
                          /\ resp'.token = u.pk]_vars

\* a token was handed out while two users exist
C3_Witness ==
    /\ Op = "token"
    /\ resp.status = 200
    /\ resp.token \in tokens
    /\ Cardinality(users) = 2

\* C4 as claimed: a known username with an invalid code gives a client
\* error with the key confirmation_code and changes nothing; an unknown
\* username gives 404 whatever the code.
C4_UnknownUsernameAlways404 ==
    [][TokenRequest =>
         LET username == resp'.request.username
             code == resp'.request.code
         IN  /\ (KnownUser(username) /\ ~check_token(TheUser(username), code))
                    => /\ resp'.status \in 400..499
                       /\ "confirmation_code" \in resp'.body
                       /\ UNCHANGED <<authVars, reviewVars>>
             /\ ~KnownUser(username)
                    => /\ resp'.status = 404
                       /\ UNCHANGED <<authVars, reviewVars>>]_vars

\* the fields of the token request pass the serializer of the view that
\* handles it
WellFormedTokenRequest(request) ==
    IF request.view = "GetApiToken"
    THEN /\ request.username # <<>>
         /\ lower(request.username) # Me
         /\ \A i \in DOMAIN request.username : UsernameChar(request.username[i])
         /\ CodeLen(request.code) \in 1..MAX_LENGTH_CONFIRMATION_CODE
    ELSE /\ Len(request.username) \in 1..MAX_LENGHT_FIELD
         /\ CodeLen(request.code) \in 1..MAX_LENGHT_FIELD

\* C4 amended: a known username with an invalid code gives a client error
\* with the key confirmation_code and changes nothing; an unknown username
\* never gives a token and changes nothing: the answer is 404 when the
\* fields of the request pass the serializer, and 400 naming the rejected
\* fields when they do not.
C4_InvalidCodeAndUnknownUser ==
    [][TokenRequest =>
         LET username == resp'.request.username
             code == resp'.request.code
         IN  /\ (KnownUser(username) /\ ~check_token(TheUser(username), code))
                    => /\ resp'.status \in 400..499
                       /\ "confirmation_code" \in resp'.body
                       /\ UNCHANGED <<authVars, reviewVars>>
             /\ (~KnownUser(username) /\ WellFormedTokenRequest(resp'.request))
                    => /\ resp'.status = 404
                       /\ UNCHANGED <<authVars, reviewVars>>
             /\ (~KnownUser(username) /\ ~WellFormedTokenRequest(resp'.request))
                    => /\ resp'.status = 400
                       /\ resp'.body # {}
                       /\ resp'.body \subseteq {"username", "confirmation_code"}
                       /\ UNCHANGED <<authVars, reviewVars>>]_vars

\* a code that was mailed, and is not valid for the known user named in the
\* request, was refused
C4_Witness ==
    /\ Op = "token"
    /\ resp.status = 400
    /\ resp.body = {"confirmation_code"}
    /\ KnownUser(resp.request.username)
    /\ \E m \in outbox : m.code = resp.request.code

C6_CodeBoundToItsUser ==
    /\ [](\A m \in outbox : \A u \in users :
              u.pk # m.user => ~check_token(u, m.code))
    /\ [][TokenIssued =>
              \A m \in outbox :
                  m.code = resp'.request.code => resp'.token = m.user]_vars

\* a code that verifies for its own user was refused under the username of
\* another user
C6_Witness ==
    /\ Op = "token"
    /\ resp.status = 400
    /\ KnownUser(resp.request.username)
    /\ \E m \in outbox :
           /\ m.code = resp.request.code
           /\ m.user # TheUser(resp.request.username).pk
           /\ \E u \in users : u.pk = m.user /\ check_token(u, m.code)

----------------------------------------------------------------------------
(* Claims on signup *)

SignupRequest == resp'.request.op = "signup"

\* a username as the specification allows it
AllowedUsername(username) ==
    /\ Len(username) \in 1..MAX_LENGTH_USERNAME
    /\ \A i \in DOMAIN username : UsernameChar(username[i])
    /\ username # Me

PairRegistered(username, email) ==
    \E u \in users : u.username = username /\ u.email = email

\* C8: a signup with an allowed username and a valid email, neither of them
\* registered, succeeds, creates exactly one user, with role "user", and
\* echoes (username, email).
C8_ValidSignupSucceeds ==
    [][(/\ SignupRequest
        /\ AllowedUsername(resp'.request.username)
        /\ EmailSyntax(resp'.request.email)
        /\ ByUsername(resp'.request.username) = {}
        /\ ByEmail(resp'.request.email) = {})
       => /\ resp'.status = 200
          /\ resp'.data = [username |-> resp'.request.username,
                           email |-> resp'.request.email]
          /\ \E new \in users' :
                 /\ new \notin users
                 /\ users' = users \cup {new}
                 /\ new.username = resp'.request.username
                 /\ new.email = resp'.request.email
                 /\ new.role = USER]_vars

\* C9: a signup with a registered (username, email) pair succeeds, mails a
\* code that verifies for the user to the email, creates no user and changes
\* no field of a user.
C9_ResignupIdempotent ==
    [][(SignupRequest /\ PairRegistered(resp'.request.username, resp'.request.email))
       => /\ resp'.status = 200
          /\ resp'.data = [username |-> resp'.request.username,
                           email |-> resp'.request.email]
          /\ users' = users
          /\ last_pk' = last_pk
          /\ resp'.mail # {}
          /\ resp'.mail \subseteq outbox'
          /\ \A m \in resp'.mail :
                 /\ m.to = resp'.request.email
                 /\ m.user = TheUser(resp'.request.username).pk
                 /\ check_token(TheUser(resp'.request.username), m.code)]_vars

\* the view that creates no user answered a signup for a user made by the
\* other view
C9_Witness ==
    /\ Op = "signup"
    /\ resp.request.view = "ApiUserSignup"
    /\ resp.status = 200
    /\ resp.mail # {}
    /\ resp.request.username # Root
    /\ PairRegistered(resp.request.username, resp.request.email)

\* C10: a signup whose username or email belongs to a user, without the
\* pair being registered, is answered 400, creates and changes no user and
\* mails nothing.
C10_ConflictingSignupFails ==
    [][(/\ SignupRequest
        /\ ~PairRegistered(resp'.request.username, resp'.request.email)
        /\ \/ KnownUser(resp'.request.username)
           \/ ByEmail(resp'.request.email) # {})
       => /\ resp'.status = 400
          /\ resp'.body # {}
          /\ users' = users
          /\ last_pk' = last_pk
          /\ outbox' = outbox
          /\ resp'.mail = {}]_vars

\* LoginSerializer.validate refused a free username with the email of a user
C10_Witness ==
    /\ Op = "signup"
    /\ resp.request.view = "ApiUserSignup"
    /\ resp.status = 400
    /\ resp.body = {"non_field_errors"}
    /\ ~KnownUser(resp.request.username)
    /\ ByEmail(resp.request.email) # {}

----------------------------------------------------------------------------
(* Signup with two requests in service: the validation of a request and    *)
(* its write are two steps, and the other request may run between them     *)

\* the unique=True of User.username and User.email: TRUE when writing
\* (username, email) to the row pk (0: a new row) violates one of them
unique_user(pk, username, email) ==
    \E u \in users : u.pk # pk /\ (u.username = username \/ u.email = email)

\* ApiUserSignup.post up to and including serializer.is_valid(), run by
\* worker w
ApiUserSignup_is_valid(w, username, email) ==
    LET request == [op |-> "signup", view |-> "ApiUserSignup", worker |-> w,
                    username |-> username, email |-> email]
    IN
    /\ Idle(w)
    /\ IF Registered(username, email)
       THEN LET mail == send_confirmation_code(username, email)
            IN  /\ Deliverable(mail)
                /\ outbox' = outbox \cup {mail}
                /\ inflight' = inflight
                /\ resp' = [request |-> request, status |-> 200,
                            body |-> {"username", "email"}, mail |-> {mail}]
       ELSE IF LoginSerializer_errors(username, email) # {}
       THEN /\ UNCHANGED <<outbox, inflight>>
            /\ resp' = [request |-> request, status |-> 400,
                        body |-> LoginSerializer_errors(username, email),
                        mail |-> {}]
       ELSE /\ outbox' = outbox
            /\ inflight' = inflight \cup
                   {[worker |-> w, view |-> "ApiUserSignup",
                     username |-> username, email |-> email, instance_pk |-> 0]}
            /\ resp' = [request |-> request, status |-> 0, body |-> {},
                        mail |-> {}]
    /\ UNCHANGED <<users, last_pk, tokens, exchanged, now>>
    /\ UNCHANGED <<reviews, last_review, titles>>
    /\ UNCHANGED catalogVars

\* CreateUserViewSet.create up to and including serializer.is_valid(), run
\* by worker w
CreateUserViewSet_is_valid(w, username, email) ==
    LET request == [op |-> "signup", view |-> "CreateUserViewSet", worker |-> w,
                    username |-> username, email |-> email]
        instance_pk == IF Registered(username, email)
                       THEN TheUser(username).pk ELSE 0
        errors == CreateUserSerializer_errors(instance_pk, username, email)
    IN
    /\ Idle(w)
    /\ IF errors # {}
       THEN /\ inflight' = inflight
            /\ resp' = [request |-> request, status |-> 400, body |-> errors,
                        mail |-> {}]
       ELSE /\ inflight' = inflight \cup
                   {[worker |-> w, view |-> "CreateUserViewSet",
                     username |-> username, email |-> email,
                     instance_pk |-> instance_pk]}
            /\ resp' = [request |-> request, status |-> 0, body |-> {},
                        mail |-> {}]
    /\ UNCHANGED authVars
    /\ UNCHANGED catalogVars
    /\ UNCHANGED <<reviews, last_review, titles>>

\* the rest of the two views: serializer.save() and the mail.  The save of
\* LoginSerializer raises NotImplementedError; the save of
\* CreateUserSerializer is an INSERT or an UPDATE, and an IntegrityError of
\* the store is caught nowhere
Signup_save(w) ==
    \E q \in inflight :
        LET request == [op |-> "signup", view |-> q.view, worker |-> w,
                        username |-> q.username, email |-> q.email]
            saved == IF q.instance_pk = 0
                     THEN NewUser(last_pk + 1, q.username, q.email)
                     ELSE [TheActor(q.instance_pk) EXCEPT
                               !.username = q.username, !.email = q.email]
            mail == [to |-> saved.email, code |-> make_token(saved),
                     user |-> saved.pk]
        IN
        /\ q.worker = w
        /\ inflight' = inflight \ {q}
        /\ IF q.view = "ApiUserSignup"
           THEN /\ UNCHANGED <<users, last_pk, outbox>>
                /\ resp' = [request |-> request, status |-> 500, body |-> {},
                            raised |-> "NotImplementedError", mail |-> {}]
           ELSE IF unique_user(q.instance_pk, q.username, q.email)
           THEN /\ UNCHANGED <<users, last_pk, outbox>>
                /\ resp' = [request |-> request, status |-> 500, body |-> {},
                            raised |-> "IntegrityError", mail |-> {}]
           ELSE /\ q.instance_pk # 0 \/ last_pk < MaxUsers
                /\ Deliverable(mail)
                /\ users' = {u \in users : u.pk # saved.pk} \cup {saved}
                /\ last_pk' = IF q.instance_pk = 0 THEN last_pk + 1 ELSE last_pk
                /\ outbox' = outbox \cup {mail}
                /\ resp' = [request |-> request, status |-> 200,
                            body |-> {"username", "email"}, mail |-> {mail}]
        /\ UNCHANGED <<tokens, exchanged, now>>
        /\ UNCHANGED <<reviews, last_review, titles>>
    /\ UNCHANGED catalogVars

\* signups that collide on the username, on the email, or on both
RaceSignups == {<<Al, AlMail>>, <<Al, OtherMail>>, <<DotName, AlMail>>,
                <<Root, RootMail>>}

NextSignupRace ==
    \/ \E w \in Workers, signup \in RaceSignups :
           ApiUserSignup_is_valid(w, signup[1], signup[2])
    \/ \E w \in Workers, signup \in RaceSignups :
           CreateUserViewSet_is_valid(w, signup[1], signup[2])
    \/ \E w \in Workers : Signup_save(w)

SpecSignupRace == Init /\ [][NextSignupRace]_vars

\* no two users share a username or an email
UsersUnique ==
    \A u, v \in users :
        (u.username = v.username \/ u.email = v.email) => u = v

\* the step is the write of a validated signup for a new user that finds
\* its username or its email taken since the validation
SignupRaceLoser ==
    /\ resp'.request.op = "signup"
    /\ \E q \in inflight : /\ q.worker = resp'.request.worker
                           /\ q.instance_pk = 0
                           /\ unique_user(0, q.username, q.email)

\* C11: of two signups that collide on the username or on the email and
\* both pass validation before either writes, at most one creates a user,
\* and the one that loses ends with a conflict response of the API (a 4xx
\* naming the conflict), never with an unhandled error of the store.
C11_SignupRaceLoserGetsConflict ==
    /\ []UsersUnique
    /\ [][SignupRaceLoser => /\ resp'.status \in 400..499
                             /\ resp'.body # {}
                             /\ users' = users]_vars

----------------------------------------------------------------------------
(* The catalog: api/views.py TitleViewSet and CategoryViewSet               *)

MaxTitles == 3
MaxComments == 1

\* rest_framework APIView.permission_denied: a request without credentials
\* is answered NotAuthenticated, any other PermissionDenied.  The settings
\* module is not part of the sources; the authentication is the bearer
\* token of the specification, whose challenge header makes the first 401.
permission_denied(actor) == IF actor = Anonymous THEN 401 ELSE 403

\* reviews/validators.py: validate_year, TRUE when it raises; the clock of
\* the requests stays within one year
current_year == 2024
validate_year(year) == year > current_year

\* TitleEditSerializer.is_valid(): the keys of serializer.errors; data holds
\* the submitted fields only, the genre list is submitted empty
TitleEditSerializer_errors(data, partial) ==
    Key("name", IF "name" \in DOMAIN data THEN data.name = Blank ELSE ~partial)
    \cup Key("year", IF "year" \in DOMAIN data THEN validate_year(data.year)
                     ELSE ~partial)
    \cup Key("category", IF "category" \in DOMAIN data
                         THEN data.category \notin categories
                         ELSE ~partial)

RECURSIVE SumScores(_)
SumScores(S) ==
    IF S = {} THEN 0
    ELSE LET r == CHOOSE r \in S : TRUE
         IN  r.score + SumScores(S \ {r})

\* the NULL of an aggregate over no rows, and the null of JSON, written as
\* a fraction without denominator
NullNumber == [num |-> 0, den |-> 0]

\* TitleViewSet.queryset: annotate(rating=Avg('reviews__score')), the mean
\* as the fraction num/den, NULL for a title without reviews
Avg(title_id) ==
    LET S == {r \in reviews : r.title = title_id}
    IN  IF S = {} THEN NullNumber
        ELSE [num |-> SumScores(S), den |-> Cardinality(S)]

\* TitleViewSerializer.rating = IntegerField(default=0): to_representation
\* is int(value); a NULL attribute is rendered as null, the default is used
\* for input only
TitleViewSerializer_rating(title_id) ==
    IF Avg(title_id) = NullNumber THEN NullNumber
    ELSE [num |-> Avg(title_id).num \div Avg(title_id).den, den |-> 1]

\* Review.title declared on_delete=DO_NOTHING: the reviews stay
ReviewsAfterDelete_do_nothing(T) == reviews

\* Review.title and Comment.review are on_delete=CASCADE: the rows left
\* when the titles of T are deleted
ReviewsAfterDelete(T) == {r \in reviews : r.title \notin T}
CommentsAfterDelete(R) == {c \in comments : \E r \in R : r.id = c.review}

\* TitleViewSet.retrieve
TitleViewSet_retrieve(actor, title_id) ==
    LET request == [op |-> "title_get", method |-> "GET", actor |-> actor,
                    title_id |-> title_id]
    IN
    /\ actor = Anonymous \/ Authenticated(actor)
    /\ IF ~IsAdminOrReadOnly(actor, "GET")
       THEN resp' = [request |-> request, status |-> permission_denied(actor),
                     body |-> {"detail"}]
       ELSE IF title_id \notin titles
       THEN resp' = [request |-> request, status |-> 404, body |-> {"detail"}]
       ELSE resp' = [request |-> request, status |-> 200,
                     body |-> {"id", "name", "year", "rating", "description",
                               "genre", "category"},
                     data |-> [id |-> title_id,
                               rating |-> TitleViewSerializer_rating(title_id),
                               category |-> category_of[title_id]]]
    /\ UNCHANGED <<authVars, reviewVars, catalogVars>>

\* TitleViewSet.create
TitleViewSet_create(actor, data) ==
    LET request == [op |-> "title_post", method |-> "POST", actor |-> actor,
                    data |-> data]
        errors == TitleEditSerializer_errors(data, FALSE)
    IN
    /\ actor = Anonymous \/ Authenticated(actor)
    /\ IF ~IsAdminOrReadOnly(actor, "POST")
       THEN /\ UNCHANGED <<titles, category_of, last_title>>
            /\ resp' = [request |-> request, status |-> permission_denied(actor),
                        body |-> {"detail"}]
       ELSE IF errors # {}
       THEN /\ UNCHANGED <<titles, category_of, last_title>>
            /\ resp' = [request |-> request, status |-> 400, body |-> errors]
       ELSE /\ last_title < MaxTitles
            /\ titles' = titles \cup {last_title + 1}
            /\ category_of' = [t \in titles' |->
                                  IF t = last_title + 1 THEN data.category
                                  ELSE category_of[t]]
            /\ last_title' = last_title + 1
            /\ resp' = [request |-> request, status |-> 201,
                        body |-> {"id", "name", "year", "description", "genre",
                                  "category"},
                        data |-> [id |-> last_title + 1]]
    /\ UNCHANGED <<authVars, reviews, last_review, inflight>>
    /\ UNCHANGED <<categories, comments, last_comment>>

\* TitleViewSet.partial_update
TitleViewSet_partial_update(actor, title_id, data) ==
    LET request == [op |-> "title_patch", method |-> "PATCH", actor |-> actor,
                    title_id |-> title_id, data |-> data]
        errors == TitleEditSerializer_errors(data, TRUE)
    IN
    /\ actor = Anonymous \/ Authenticated(actor)
    /\ IF ~IsAdminOrReadOnly(actor, "PATCH")
       THEN /\ category_of' = category_of
            /\ resp' = [request |-> request, status |-> permission_denied(actor),
                        body |-> {"detail"}]
       ELSE IF title_id \notin titles
       THEN /\ category_of' = category_of
            /\ resp' = [request |-> request, status |-> 404, body |-> {"detail"}]
       ELSE IF errors # {}
       THEN /\ category_of' = category_of
            /\ resp' = [request |-> request, status |-> 400, body |-> errors]
       ELSE /\ category_of' = IF "category" \in DOMAIN data
                              THEN [category_of EXCEPT ![title_id] = data.category]
                              ELSE category_of
            /\ resp' = [request |-> request, status |-> 200,
                        body |-> {"id", "name", "year", "description", "genre",
                                  "category"},
                        data |-> [id |-> title_id]]
    /\ UNCHANGED <<authVars, reviewVars>>
    /\ UNCHANGED <<categories, last_title, comments, last_comment>>

\* TitleViewSet.destroy: the DELETE of the row and of the rows that cascade
TitleViewSet_destroy(actor, title_id) ==
    LET request == [op |-> "title_delete", method |-> "DELETE", actor |-> actor,
                    title_id |-> title_id]
    IN
    /\ actor = Anonymous \/ Authenticated(actor)
    /\ IF ~IsAdminOrReadOnly(actor, "DELETE")
       THEN /\ UNCHANGED <<titles, category_of, reviews, comments>>
            /\ resp' = [request |-> request, status |-> permission_denied(actor),
                        body |-> {"detail"}]
       ELSE IF title_id \notin titles
       THEN /\ UNCHANGED <<titles, category_of, reviews, comments>>
            /\ resp' = [request |-> request, status |-> 404, body |-> {"detail"}]
       ELSE /\ titles' = titles \ {title_id}
            /\ category_of' = [t \in titles' |-> category_of[t]]
            /\ reviews' = ReviewsAfterDelete({title_id})
            /\ comments' = CommentsAfterDelete(reviews')
            /\ resp' = [request |-> request, status |-> 204, body |-> {}]
    /\ UNCHANGED <<authVars, last_review, inflight>>
    /\ UNCHANGED <<categories, last_title, last_comment>>

\* CategoryViewSet.create; the slug is unique
CategoryViewSet_create(actor, slug) ==
    LET request == [op |-> "category_post", method |-> "POST", actor |-> actor,
                    slug |-> slug]
    IN
    /\ actor = Anonymous \/ Authenticated(actor)
    /\ IF ~IsAdminOrReadOnly(actor, "POST")
       THEN /\ categories' = categories
            /\ resp' = [request |-> request, status |-> permission_denied(actor),
                        body |-> {"detail"}]
       ELSE IF slug \in categories
       THEN /\ categories' = categories
            /\ resp' = [request |-> request, status |-> 400, body |-> {"slug"}]
       ELSE /\ categories' = categories \cup {slug}
            /\ resp' = [request |-> request, status |-> 201,
                        body |-> {"name", "slug"}]
    /\ UNCHANGED <<authVars, reviewVars>>
    /\ UNCHANGED <<category_of, last_title, comments, last_comment>>

\* CategoryViewSet.destroy: Title.category is on_delete=SET_NULL
CategoryViewSet_destroy(actor, slug) ==
    LET request == [op |-> "category_delete", method |-> "DELETE",
                    actor |-> actor, slug |-> slug]
    IN
    /\ actor = Anonymous \/ Authenticated(actor)
    /\ IF ~IsAdminOrReadOnly(actor, "DELETE")
       THEN /\ UNCHANGED <<categories, category_of>>
            /\ resp' = [request |-> request, status |-> permission_denied(actor),
                        body |-> {"detail"}]
       ELSE IF slug \notin categories
       THEN /\ UNCHANGED <<categories, category_of>>
            /\ resp' = [request |-> request, status |-> 404, body |-> {"detail"}]
       ELSE /\ categories' = categories \ {slug}
            /\ category_of' = [t \in titles |->
                                  IF category_of[t] = slug THEN Null
                                  ELSE category_of[t]]
            /\ resp' = [request |-> request, status |-> 204, body |-> {}]
    /\ UNCHANGED <<authVars, reviewVars>>
    /\ UNCHANGED <<last_title, comments, last_comment>>

----------------------------------------------------------------------------
(* Comments: api/serializers.py CommentSerializer, api/views.py            *)
(* CommentViewSet                                                          *)

\* CommentSerializer.is_valid(): text is the one writable field
CommentSerializer_errors(data, partial) ==
    Key("text", IF "text" \in DOMAIN data THEN data.text = Blank ELSE ~partial)

\* CommentViewSet.get_review with the review looked up by its id alone
get_review_any_title(title_id, review_id) ==
    {r \in reviews : r.id = review_id}

\* CommentViewSet.get_review: the rows get_object_or_404 selects
get_review(title_id, review_id) ==
    {r \in reviews : r.id = review_id /\ r.title = title_id}

\* CommentViewSet.get_queryset and the lookup of get_object
CommentOf(title_id, review_id, comment_id) ==
    {c \in comments : /\ get_review(title_id, review_id) # {}
                      /\ c.review = review_id
                      /\ c.id = comment_id}

\* CommentViewSet.list
CommentViewSet_list(actor, title_id, review_id) ==
    LET request == [op |-> "comment_list", method |-> "GET", actor |-> actor,
                    title_id |-> title_id, review_id |-> review_id]
    IN
    /\ actor = Anonymous \/ Authenticated(actor)
    /\ IF ~IsAuthenticatedOrReadOnly(actor, "GET")
       THEN resp' = [request |-> request, status |-> permission_denied(actor),
                     body |-> {"detail"}]
       ELSE IF get_review(title_id, review_id) = {}
       THEN resp' = [request |-> request, status |-> 404, body |-> {"detail"}]
       ELSE resp' = [request |-> request, status |-> 200, body |-> {"results"},
                     data |-> [ids |-> {c.id : c \in {c \in comments :
                                                          c.review = review_id}}]]
    /\ UNCHANGED <<authVars, reviewVars, catalogVars>>

\* CommentViewSet.retrieve
CommentViewSet_retrieve(actor, title_id, review_id, comment_id) ==
    LET request == [op |-> "comment_get", method |-> "GET", actor |-> actor,
                    title_id |-> title_id, review_id |-> review_id,
                    comment_id |-> comment_id]
        found == CommentOf(title_id, review_id, comment_id)
    IN
    /\ actor = Anonymous \/ Authenticated(actor)
    /\ IF ~IsAuthenticatedOrReadOnly(actor, "GET")
       THEN resp' = [request |-> request, status |-> permission_denied(actor),
                     body |-> {"detail"}]
       ELSE IF found = {}
       THEN resp' = [request |-> request, status |-> 404, body |-> {"detail"}]
       ELSE LET obj == CHOOSE c \in found : TRUE
            IN  IF ~IsAuthorOrModeratorsOrReadOnly(actor, "GET", obj)
                THEN resp' = [request |-> request,
                              status |-> permission_denied(actor),
                              body |-> {"detail"}]
                ELSE resp' = [request |-> request, status |-> 200,
                              body |-> {"id", "text", "author", "pub_date"},
                              data |-> [id |-> obj.id, review |-> obj.review]]
    /\ UNCHANGED <<authVars, reviewVars, catalogVars>>

\* CommentViewSet.create: the permission checks, serializer.is_valid() and
\* perform_create with its get_review()
CommentViewSet_create(actor, title_id, review_id, data) ==
    LET request == [op |-> "comment_post", method |-> "POST", actor |-> actor,
                    title_id |-> title_id, review_id |-> review_id,
                    data |-> data]
        errors == CommentSerializer_errors(data, FALSE)
    IN
    /\ actor = Anonymous \/ Authenticated(actor)
    /\ IF ~IsAuthenticatedOrReadOnly(actor, "POST")
       THEN /\ UNCHANGED <<comments, last_comment>>
            /\ resp' = [request |-> request, status |-> permission_denied(actor),
                        body |-> {"detail"}]
       ELSE IF errors # {}
       THEN /\ UNCHANGED <<comments, last_comment>>
            /\ resp' = [request |-> request, status |-> 400, body |-> errors]
       ELSE IF get_review(title_id, review_id) = {}
       THEN /\ UNCHANGED <<comments, last_comment>>
            /\ resp' = [request |-> request, status |-> 404, body |-> {"detail"}]
       ELSE /\ last_comment < MaxComments
            /\ comments' = comments \cup
                   {[id |-> last_comment + 1, review |-> review_id,
                     author |-> actor, text |-> data.text]}
            /\ last_comment' = last_comment + 1
            /\ resp' = [request |-> request, status |-> 201,
                        body |-> {"id", "text", "author", "pub_date"},
                        data |-> [id |-> last_comment + 1, review |-> review_id]]
    /\ UNCHANGED <<authVars, reviewVars>>
    /\ UNCHANGED <<categories, category_of, last_title>>

\* CommentViewSet.partial_update
CommentViewSet_partial_update(actor, title_id, review_id, comment_id, data) ==
    LET request == [op |-> "comment_patch", method |-> "PATCH", actor |-> actor,
                    title_id |-> title_id, review_id |-> review_id,
                    comment_id |-> comment_id, data |-> data]
        found == CommentOf(title_id, review_id, comment_id)
        errors == CommentSerializer_errors(data, TRUE)
    IN
    /\ actor = Anonymous \/ Authenticated(actor)
    /\ IF ~IsAuthenticatedOrReadOnly(actor, "PATCH")
       THEN /\ comments' = comments
            /\ resp' = [request |-> request, status |-> permission_denied(actor),
                        body |-> {"detail"}]
       ELSE IF found = {}
       THEN /\ comments' = comments
            /\ resp' = [request |-> request, status |-> 404, body |-> {"detail"}]
       ELSE LET obj == CHOOSE c \in found : TRUE
                saved == [obj EXCEPT
                    !.text = IF "text" \in DOMAIN data THEN data.text ELSE @]
            IN  IF ~IsAuthorOrModeratorsOrReadOnly(actor, "PATCH", obj)
                THEN /\ comments' = comments
                     /\ resp' = [request |-> request,
                                 status |-> permission_denied(actor),
                                 body |-> {"detail"}]
                ELSE IF errors # {}
                THEN /\ comments' = comments
                     /\ resp' = [request |-> request, status |-> 400,
                                 body |-> errors]
                ELSE /\ comments' = (comments \ {obj}) \cup {saved}
                     /\ resp' = [request |-> request, status |-> 200,
                                 body |-> {"id", "text", "author", "pub_date"},
                                 data |-> [id |-> obj.id, review |-> obj.review]]
    /\ UNCHANGED <<authVars, reviewVars>>
    /\ UNCHANGED <<categories, category_of, last_title, last_comment>>

\* CommentViewSet.destroy
CommentViewSet_destroy(actor, title_id, review_id, comment_id) ==
    LET request == [op |-> "comment_delete", method |-> "DELETE",
                    actor |-> actor, title_id |-> title_id,
                    review_id |-> review_id, comment_id |-> comment_id]
        found == CommentOf(title_id, review_id, comment_id)
    IN
    /\ actor = Anonymous \/ Authenticated(actor)
    /\ IF ~IsAuthenticatedOrReadOnly(actor, "DELETE")
       THEN /\ comments' = comments
            /\ resp' = [request |-> request, status |-> permission_denied(actor),
                        body |-> {"detail"}]
       ELSE IF found = {}
       THEN /\ comments' = comments
            /\ resp' = [request |-> request, status |-> 404, body |-> {"detail"}]
       ELSE LET obj == CHOOSE c \in found : TRUE
            IN  IF ~IsAuthorOrModeratorsOrReadOnly(actor, "DELETE", obj)
                THEN /\ comments' = comments
                     /\ resp' = [request |-> request,
                                 status |-> permission_denied(actor),
                                 body |-> {"detail"}]
                ELSE /\ comments' = comments \ {obj}
                     /\ resp' = [request |-> request, status |-> 204,
                                 body |-> {}]
    /\ UNCHANGED <<authVars, reviewVars>>
    /\ UNCHANGED <<categories, category_of, last_title, last_comment>>

----------------------------------------------------------------------------
(* The catalog endpoints under every kind of actor *)

Book == "book"
Film == "film"

TitlePosts == {[name |-> T1, year |-> current_year, category |-> Book],
               [name |-> T1, year |-> current_year + 1, category |-> Book]}
TitlePatches == {[category |-> Film], [name |-> Blank]}

\* anonymous, the superuser, a user and a moderator
Actors == {Anonymous, 1, 2, 3}

\* three accounts holding bearer tokens, two titles and two categories
InitCatalog ==
    /\ users = {Superuser, AlUser, Moderator}
    /\ last_pk = 3
    /\ outbox = {}
    /\ tokens = {1, 2, 3}
    /\ exchanged = {}
    /\ now = 0
    /\ reviews = {}
    /\ last_review = 0
    /\ titles = {1, 2}
    /\ inflight = {}
    /\ categories = {Book, Film}
    /\ category_of = [t \in {1, 2} |-> Book]
    /\ last_title = 2
    /\ comments = {}
    /\ last_comment = 0
    /\ resp = [request |-> [op |-> "init"], status |-> 0, body |-> {}]

NextTitles ==
    \/ \E actor \in Actors, title_id \in 1..MaxTitles :
           TitleViewSet_retrieve(actor, title_id)
    \/ \E actor \in Actors, data \in TitlePosts :
           TitleViewSet_create(actor, data)
    \/ \E actor \in Actors, title_id \in 1..MaxTitles, data \in TitlePatches :
           TitleViewSet_partial_update(actor, title_id, data)
    \/ \E actor \in Actors, title_id \in 1..MaxTitles :
           TitleViewSet_destroy(actor, title_id)
    \/ \E actor \in Actors, slug \in {Book, Film} :
           CategoryViewSet_create(actor, slug)
    \/ \E actor \in Actors, slug \in {Book, Film} :
           CategoryViewSet_destroy(actor, slug)

SpecTitles == InitCatalog /\ [][NextTitles]_vars

\* the step handled a request on a title
TitleRequest ==
    resp'.request.op \in {"title_get", "title_post", "title_patch", "title_delete"}

\* the actor of the request handled by the step is an admin
AdminActor ==
    /\ resp'.request.actor # Anonymous
    /\ is_admin(TheActor(resp'.request.actor))

\* C12: on titles a safe request is never denied, whoever sends it; an
\* unsafe request is answered 401 to an anonymous actor and 403 to an
\* authenticated actor who is not admin, and changes nothing; an unsafe
\* request of an admin is never denied.
C12_TitlePermissionMatrix ==
    [][TitleRequest =>
         LET request == resp'.request
         IN  /\ request.method \in SAFE_METHODS => resp'.status \notin {401, 403}
             /\ (request.method \notin SAFE_METHODS /\ request.actor = Anonymous)
                    => /\ resp'.status = 401
                       /\ UNCHANGED <<authVars, reviewVars, catalogVars>>
             /\ (/\ request.method \notin SAFE_METHODS
                 /\ request.actor # Anonymous
                 /\ ~AdminActor)
                    => /\ resp'.status = 403
                       /\ UNCHANGED <<authVars, reviewVars, catalogVars>>
             /\ (request.method \notin SAFE_METHODS /\ AdminActor)
                    => resp'.status \notin {401, 403}]_vars

\* a moderator was refused the POST of a valid title after the admin had
\* created one
C12_Witness ==
    /\ Op = "title_post"
    /\ resp.status = 403
    /\ is_moderator(TheActor(resp.request.actor))
    /\ TitleEditSerializer_errors(resp.request.data, FALSE) = {}
    /\ last_title > 2

----------------------------------------------------------------------------
(* The review and comment endpoints under every kind of actor *)

CommentPosts == {[text |-> T1], [text |-> Blank]}
CommentPatches == {[text |-> T2], [text |-> Blank]}

\* the review id under which a client that lists the comments finds the
\* comment; the first review for an id that no comment has
PathOf(comment_id) ==
    IF \E c \in comments : c.id = comment_id
    THEN (CHOOSE c \in comments : c.id = comment_id).review
    ELSE 1

\* reviews and comments of the user and of the moderator under the first
\* title, changed and deleted by every kind of actor
NextModeration ==
    \/ \E actor \in {Anonymous, 2, 3} :
           ReviewViewSet_create("w1", actor, 1, [text |-> T1, score |-> MIN_SCORE])
    \/ ReviewViewSet_perform_create("w1")
    \/ \E actor \in Actors, review_id \in 1..MaxReviews :
           ReviewViewSet_partial_update(actor, 1, review_id, [score |-> MAX_SCORE])
    \/ \E actor \in Actors, review_id \in 1..MaxReviews :
           ReviewViewSet_destroy(actor, 1, review_id)
    \/ \E actor \in {Anonymous, 2, 3}, review_id \in 1..MaxReviews :
           CommentViewSet_create(actor, 1, review_id, [text |-> T1])
    \/ \E actor \in Actors, comment_id \in 1..MaxComments :
           CommentViewSet_partial_update(actor, 1, PathOf(comment_id),
                                         comment_id, [text |-> T2])
    \/ \E actor \in Actors, comment_id \in 1..MaxComments :
           CommentViewSet_destroy(actor, 1, PathOf(comment_id), comment_id)

SpecModeration == InitCatalog /\ [][NextModeration]_vars

\* the review or the comment a request addresses, if it exists
TargetOf(request) ==
    IF request.op \in {"review_patch", "review_delete"}
    THEN ReviewOf(request.title_id, request.review_id)
    ELSE CommentOf(request.title_id, request.review_id, request.comment_id)

\* the step handled a PATCH or a DELETE of a review or a comment
UnsafeOnObject ==
    resp'.request.op \in {"review_patch", "review_delete",
                          "comment_patch", "comment_delete"}

\* the actor is the author of the object, a moderator or an admin
MayModerate(actor, obj) ==
    \/ obj.author = actor
    \/ is_moderator(TheActor(actor))
    \/ is_admin(TheActor(actor))

\* C13: a PATCH or DELETE of an authenticated user on an existing review or
\* comment is denied with 403, and changes nothing, exactly when the user
\* is neither the author nor a moderator nor an admin; when it is allowed a
\* DELETE removes the object and a PATCH with a valid body is answered 200.
C13_AuthorModeratorAdmin ==
    [][(/\ UnsafeOnObject
        /\ resp'.request.actor # Anonymous
        /\ TargetOf(resp'.request) # {})
       => LET request == resp'.request
              obj == CHOOSE o \in TargetOf(request) : TRUE
          IN  IF MayModerate(request.actor, obj)
              THEN /\ resp'.status \in {200, 204, 400}
                   /\ request.op \in {"review_delete", "comment_delete"}
                          => (resp'.status = 204 /\ obj \notin reviews' \cup comments')
                   /\ resp'.status = 400 => resp'.body \subseteq {"text", "score"}
              ELSE /\ resp'.status = 403
                   /\ UNCHANGED <<authVars, reviewVars, catalogVars>>]_vars

\* a user was refused the PATCH of the comment of another user under the
\* user's own review
C13_Witness ==
    /\ Op = "comment_patch"
    /\ resp.status = 403
    /\ \E c \in CommentOf(resp.request.title_id, resp.request.review_id,
                          resp.request.comment_id) :
           /\ c.author # resp.request.actor
           /\ \E r \in reviews : r.id = c.review /\ r.author = resp.request.actor

\* the step handled an unsafe request on a review or comment endpoint
UnsafeOnReviews ==
    resp'.request.op \in {"review_post", "review_patch", "review_delete",
                          "comment_post", "comment_patch", "comment_delete"}

\* C19: on the review and comment endpoints an unsafe request of an
\* anonymous actor is answered 401 and changes nothing, whether its target
\* exists or not; a PATCH or DELETE of an authenticated actor on a review or
\* comment that does not exist is answered 404; and 403 is answered only to
\* an authenticated actor whose target exists.
C19_DenialsOrdered ==
    [][UnsafeOnReviews =>
         LET request == resp'.request
         IN  /\ request.actor = Anonymous
                    => /\ resp'.status = 401
                       /\ UNCHANGED <<authVars, reviewVars, catalogVars>>
             /\ (/\ request.actor # Anonymous
                 /\ UnsafeOnObject
                 /\ TargetOf(request) = {})
                    => /\ resp'.status = 404
                       /\ UNCHANGED <<authVars, reviewVars, catalogVars>>
             /\ resp'.status = 403
                    => /\ request.actor # Anonymous
                       /\ UnsafeOnObject
                       /\ TargetOf(request) # {}]_vars

\* an anonymous actor was answered 401 for the DELETE of a comment that
\* exists
C19_Witness ==
    /\ Op = "comment_delete"
    /\ resp.request.actor = Anonymous
    /\ resp.status = 401
    /\ TargetOf(resp.request) # {}

----------------------------------------------------------------------------
(* The comment endpoints addressed through reviews of either title *)

NextComments ==
    \/ \E title_id \in titles :
           ReviewViewSet_create("w1", 2, title_id, [text |-> T1, score |-> MIN_SCORE])
    \/ ReviewViewSet_perform_create("w1")
    \/ \E title_id \in titles, review_id \in 1..MaxReviews :
           ReviewViewSet_destroy(2, title_id, review_id)
    \/ \E actor \in {Anonymous, 2}, title_id \in titles,
          review_id \in 1..MaxReviews :
           CommentViewSet_list(actor, title_id, review_id)
    \/ \E title_id \in titles, review_id \in 1..MaxReviews,
          comment_id \in 1..MaxComments :
           CommentViewSet_retrieve(Anonymous, title_id, review_id, comment_id)
    \/ \E actor \in {Anonymous, 2}, title_id \in titles,
          review_id \in 1..MaxReviews, data \in CommentPosts :
           CommentViewSet_create(actor, title_id, review_id, data)
    \/ \E title_id \in titles, review_id \in 1..MaxReviews,
          comment_id \in 1..MaxComments, data \in CommentPatches :
           CommentViewSet_partial_update(2, title_id, review_id, comment_id, data)
    \/ \E actor \in {Anonymous, 2}, title_id \in titles,
          review_id \in 1..MaxReviews, comment_id \in 1..MaxComments :
           CommentViewSet_destroy(actor, title_id, review_id, comment_id)

SpecComments == InitCatalog /\ [][NextComments]_vars

\* the step handled a request on a comment endpoint
CommentRequest ==
    resp'.request.op \in {"comment_list", "comment_get", "comment_post",
                          "comment_patch", "comment_delete"}

\* the review of the path of the request is a review of the title of the
\* path
ReviewInPath(request) ==
    \E r \in reviews : r.id = request.review_id /\ r.title = request.title_id

\* C20 as claimed: every comment operation whose review does not exist or
\* does not belong to the title of the path is answered 404 and changes
\* nothing.
C20_AlwaysNotFound ==
    [][(CommentRequest /\ ~ReviewInPath(resp'.request))
       => /\ resp'.status = 404
          /\ UNCHANGED <<authVars, reviewVars, catalogVars>>]_vars

\* each comment belongs to a review that exists
CommentsHaveReview == \A c \in comments : \E r \in reviews : r.id = c.review

\* C20 amended: a comment operation whose review does not exist or does
\* not belong to the title of the path changes nothing; it is answered 401
\* when it is unsafe and anonymous, 400 when it is a POST whose body fails
\* validation, and 404 otherwise.  A comment is created under, and reached
\* through, a review of the title of the path only, and every comment
\* belongs to a review that exists.
C20_CommentsScopedToReview ==
    /\ []CommentsHaveReview
    /\ [][CommentRequest =>
         LET request == resp'.request
         IN  /\ ~ReviewInPath(request)
                    => /\ UNCHANGED <<authVars, reviewVars, catalogVars>>
                       /\ resp'.status =
                             IF /\ request.method \notin SAFE_METHODS
                                /\ request.actor = Anonymous
                             THEN 401
                             ELSE IF /\ request.op = "comment_post"
                                     /\ CommentSerializer_errors(request.data, FALSE) # {}
                             THEN 400
                             ELSE 404
             /\ resp'.status \in {200, 201, 204} => ReviewInPath(request)
             /\ (resp'.status = 201 \/ (resp'.status = 200 /\ request.op # "comment_list"))
                    => /\ resp'.data.review = request.review_id
                       /\ \E c \in comments' : /\ c.id = resp'.data.id
                                               /\ c.review = request.review_id]_vars

\* the POST of a valid comment was answered 404 because its review belongs
\* to the other title
C20_Witness ==
    /\ Op = "comment_post"
    /\ resp.status = 404
    /\ resp.request.actor # Anonymous
    /\ \E r \in reviews : /\ r.id = resp.request.review_id
                          /\ r.title # resp.request.title_id

----------------------------------------------------------------------------
(* The catalog with its reviews and comments: ratings and cascades *)

NextCatalog ==
    \/ \E actor \in {2, 3}, title_id \in titles :
           ReviewViewSet_create("w1", actor, title_id,
                                [text |-> T1, score |-> MIN_SCORE])
    \/ ReviewViewSet_perform_create("w1")
    \/ \E r \in reviews :
           /\ r.author = 2
           /\ ReviewViewSet_partial_update(r.author, r.title, r.id,
                                           [score |-> MAX_SCORE])
    \/ \E r \in reviews :
           CommentViewSet_create(2, r.title, r.id, [text |-> T1])
    \/ \E title_id \in 1..2 : TitleViewSet_retrieve(Anonymous, title_id)
    \/ TitleViewSet_partial_update(1, 1, [category |-> Film])
    \/ \E title_id \in titles : TitleViewSet_destroy(1, title_id)
    \/ \E slug \in {Book, Film} : CategoryViewSet_destroy(1, slug)

SpecCatalog == InitCatalog /\ [][NextCatalog]_vars

\* the step answered the read of a title
TitleRead == resp'.request.op = "title_get" /\ resp'.status = 200

\* C16: the rating in the answer to the read of a title is the arithmetic
\* mean of the scores of the reviews the title has at that moment
\* (n * rating = s1 + ... + sn), and is absent or 0 for a title without
\* reviews.
C16_RatingIsTheMean ==
    [][TitleRead =>
         LET S == {r \in reviews : r.title = resp'.request.title_id}
             rating == resp'.data.rating
         IN  IF S = {}
             THEN rating = NullNumber \/ rating = [num |-> 0, den |-> 1]
             ELSE /\ rating # NullNumber
                  /\ Cardinality(S) * rating.num = SumScores(S) * rating.den]_vars

\* the step deleted a title; the step deleted a category
TitleDeleted == resp'.request.op = "title_delete" /\ resp'.status = 204
CategoryDeleted == resp'.request.op = "category_delete" /\ resp'.status = 204

\* every review belongs to a title, every comment to a review, and every
\* title to a category or to none
References ==
    /\ \A r \in reviews : r.title \in titles
    /\ \A c \in comments : \E r \in reviews : r.id = c.review
    /\ DOMAIN category_of = titles
    /\ \A t \in titles : category_of[t] \in categories \cup {Null}

\* C17: the delete of a title removes the title, its reviews and the
\* comments of those reviews, and nothing else; the delete of a category
\* removes the category, sets the category of the titles that had it to
\* null, and deletes no title, review or comment; in every reachable state
\* each review has its title and each comment its review.
C17_CascadeAndSetNull ==
    /\ []References
    /\ [][TitleDeleted =>
            LET T == resp'.request.title_id
                gone == {r.id : r \in {r \in reviews : r.title = T}}
            IN  /\ titles' = titles \ {T}
                /\ reviews' = {r \in reviews : r.title # T}
                /\ comments' = {c \in comments : c.review \notin gone}
                /\ category_of' = [t \in titles \ {T} |-> category_of[t]]
                /\ UNCHANGED <<authVars, categories, last_title, last_review,
                               last_comment, inflight>>]_vars
    /\ [][CategoryDeleted =>
            LET slug == resp'.request.slug
            IN  /\ categories' = categories \ {slug}
                /\ category_of' = [t \in titles |->
                                      IF category_of[t] = slug THEN Null
                                      ELSE category_of[t]]
                /\ UNCHANGED <<authVars, reviewVars, last_title, comments,
                               last_comment>>]_vars

\* a title was deleted with its review and the comment of the review, and
\* the review of the other title is still there
C17_Witness ==
    /\ Op = "title_delete"
    /\ resp.status = 204
    /\ last_comment > 0
    /\ comments = {}
    /\ reviews # {}

----------------------------------------------------------------------------
(* User management: api/views.py UserViewSet, users/views.py get_me_data   *)

MaxAccounts == 4

\* AdminUsersSerializer.is_valid() on create: username and email are
\* required, role has the default of the model
AdminUsersSerializer_errors(data) ==
    Key("username", "username" \notin DOMAIN data)
    \cup Key("email", "email" \notin DOMAIN data)
    \cup UserSerializer_errors([pk |-> 0], data, TRUE)

\* Review.author and Comment.author are on_delete=CASCADE: the rows left
\* when the user pk is deleted
ReviewsWithoutAuthor(pk) == {r \in reviews : r.author # pk}
CommentsWithoutAuthor(pk, R) ==
    {c \in comments : c.author # pk /\ \E r \in R : r.id = c.review}

\* permission_classes of UserViewSet: IsAuthenticated, then IsAdmin; the
\* status of the refusal, 0 when the request is let through
UserViewSet_check_permissions(actor) ==
    IF actor = Anonymous THEN permission_denied(actor)
    ELSE IF ~IsAdmin(actor) THEN permission_denied(actor)
    ELSE 0

\* UserViewSet.list
UserViewSet_list(actor) ==
    LET request == [op |-> "user_list", method |-> "GET", actor |-> actor]
        refused == UserViewSet_check_permissions(actor)
    IN
    /\ actor = Anonymous \/ Authenticated(actor)
    /\ IF refused # 0
       THEN resp' = [request |-> request, status |-> refused, body |-> {"detail"}]
       ELSE resp' = [request |-> request, status |-> 200, body |-> {"results"},
                     data |-> [pks |-> {u.pk : u \in users}]]
    /\ UNCHANGED <<authVars, reviewVars, catalogVars>>

\* UserViewSet.retrieve
UserViewSet_retrieve(actor, username) ==
    LET request == [op |-> "user_get", method |-> "GET", actor |-> actor,
                    username |-> username]
        refused == UserViewSet_check_permissions(actor)
    IN
    /\ actor = Anonymous \/ Authenticated(actor)
    /\ IF refused # 0
       THEN resp' = [request |-> request, status |-> refused, body |-> {"detail"}]
       ELSE IF ByUsername(username) = {}
       THEN resp' = [request |-> request, status |-> 404, body |-> {"detail"}]
       ELSE resp' = [request |-> request, status |-> 200,
                     body |-> {"username", "email", "role"},
                     data |-> [username |-> username,
                               email |-> TheUser(username).email,
                               role |-> TheUser(username).role]]
    /\ UNCHANGED <<authVars, reviewVars, catalogVars>>

\* UserViewSet.create
UserViewSet_create(actor, data) ==
    LET request == [op |-> "user_post", method |-> "POST", actor |-> actor,
                    data |-> data]
        refused == UserViewSet_check_permissions(actor)
        errors == AdminUsersSerializer_errors(data)
        saved == UserSerializer_update(
                     NewUser(last_pk + 1, data.username, data.email), data, TRUE)
    IN
    /\ actor = Anonymous \/ Authenticated(actor)
    /\ IF refused # 0
       THEN /\ UNCHANGED <<users, last_pk>>
            /\ resp' = [request |-> request, status |-> refused,
                        body |-> {"detail"}]
       ELSE IF errors # {}
       THEN /\ UNCHANGED <<users, last_pk>>
            /\ resp' = [request |-> request, status |-> 400, body |-> errors]
       ELSE /\ last_pk < MaxAccounts
            /\ users' = users \cup {saved}
            /\ last_pk' = last_pk + 1
            /\ resp' = [request |-> request, status |-> 201,
                        body |-> {"username", "email", "role"},
                        data |-> [username |-> saved.username,
                                  email |-> saved.email, role |-> saved.role]]
    /\ UNCHANGED <<outbox, tokens, exchanged, now>>
    /\ UNCHANGED <<reviewVars, catalogVars>>

\* UserViewSet.destroy: the DELETE of the row and of the rows that cascade
UserViewSet_destroy(actor, username) ==
    LET request == [op |-> "user_delete", method |-> "DELETE", actor |-> actor,
                    username |-> username]
        refused == UserViewSet_check_permissions(actor)
    IN
    /\ actor = Anonymous \/ Authenticated(actor)
    /\ IF refused # 0
       THEN /\ UNCHANGED <<users, reviews, comments>>
            /\ resp' = [request |-> request, status |-> refused,
                        body |-> {"detail"}]
       ELSE IF ByUsername(username) = {}
       THEN /\ UNCHANGED <<users, reviews, comments>>
            /\ resp' = [request |-> request, status |-> 404, body |-> {"detail"}]
       ELSE /\ users' = users \ {TheUser(username)}
            /\ reviews' = ReviewsWithoutAuthor(TheUser(username).pk)
            /\ comments' = CommentsWithoutAuthor(TheUser(username).pk, reviews')
            /\ resp' = [request |-> request, status |-> 204, body |-> {}]
    /\ UNCHANGED <<last_pk, outbox, tokens, exchanged, now>>
    /\ UNCHANGED <<last_review, titles, inflight>>
    /\ UNCHANGED <<categories, category_of, last_title, last_comment>>

\* users/serializers.py: UserSerializer.is_valid() on an instance with
\* partial=True; role is a writable choice field
UserSerializer_users_errors(instance, data) ==
    Key("username",
        /\ "username" \in DOMAIN data
        /\ \/ data.username = <<>>
           \/ Len(data.username) > MAX_LENGHT_FIELD
           \/ \E i \in DOMAIN data.username : ~UsernameChar(data.username[i])
           \/ \E u \in ByUsername(data.username) : u.pk # instance.pk
           \/ lower(data.username) = BANNED_USERNAME_users)
    \cup Key("email",
        /\ "email" \in DOMAIN data
        /\ \/ data.email = <<>>
           \/ Len(data.email) > MAX_LENGHT_FIELD
           \/ ~EmailSyntax(data.email)
           \/ \E u \in ByEmail(data.email) : u.pk # instance.pk)
    \cup Key("role", "role" \in DOMAIN data /\ data.role \notin ROLE_CHOICES)

\* users/views.py: UserViewSet.get_me_data with method PATCH;
\* serializer.save(role=request.user.role) writes the stored role back
get_me_data(actor, data) ==
    LET request == [op |-> "patch_me", view |-> "users.UserViewSet",
                    actor |-> actor, data |-> data]
    IN
    /\ actor = Anonymous \/ Authenticated(actor)
    /\ IF actor = Anonymous
       THEN /\ users' = users
            /\ resp' = [request |-> request, status |-> permission_denied(actor),
                        body |-> {"detail"}]
       ELSE LET user == TheActor(actor)
                errors == UserSerializer_users_errors(user, data)
                saved == [UserSerializer_update(user, data, TRUE)
                              EXCEPT !.role = user.role]
            IN  IF errors # {}
                THEN /\ users' = users
                     /\ resp' = [request |-> request, status |-> 400,
                                 body |-> errors]
                ELSE /\ users' = (users \ {user}) \cup {saved}
                     /\ resp' = [request |-> request, status |-> 200,
                                 body |-> {"username", "email", "role"},
                                 data |-> [username |-> saved.username,
                                           email |-> saved.email,
                                           role |-> saved.role]]
    /\ UNCHANGED <<last_pk, outbox, tokens, exchanged, now>>
    /\ UNCHANGED <<reviewVars, catalogVars>>

----------------------------------------------------------------------------
(* The user endpoints under accounts of every kind *)

\* an account with the role admin, and an account made in the admin site
\* with the superuser flag alone
Boss == [NewUser(2, DotName, OtherMail) EXCEPT !.role = ADMIN]
Eve == <<"e", "v", "e">>
EveMail == <<"e", "@", "x", ".", "y">>
Auditor == [NewUser(3, Eve, EveMail) EXCEPT !.is_superuser = TRUE]

RolePatches == {[role |-> r] : r \in ROLE_CHOICES}
MePatches == {[role |-> ADMIN], [role |-> USER], [email |-> AlMail]}
UserPosts == {[username |-> Al, email |-> AlMail, role |-> MODERATOR],
              [username |-> Al, email |-> NoMail]}

\* three accounts holding bearer tokens
InitRoles ==
    /\ users = {Superuser, Boss, Auditor}
    /\ last_pk = 3
    /\ outbox = {}
    /\ tokens = {1, 2, 3}
    /\ exchanged = {}
    /\ now = 0
    /\ reviews = {}
    /\ last_review = 0
    /\ titles = {}
    /\ inflight = {}
    /\ categories = {}
    /\ category_of = <<>>
    /\ last_title = 0
    /\ comments = {}
    /\ last_comment = 0
    /\ resp = [request |-> [op |-> "init"], status |-> 0, body |-> {}]

NextRoles ==
    \/ \E actor \in Actors : UserViewSet_list(actor)
    \/ \E actor \in Actors, username \in {DotName, Al} :
           UserViewSet_retrieve(actor, username)
    \/ \E actor \in Actors, data \in UserPosts : UserViewSet_create(actor, data)
    \/ \E actor \in Actors, data \in RolePatches :
           UserViewSet_partial_update(actor, DotName, data)
    \/ \E actor \in Actors : UserViewSet_destroy(actor, Al)
    \/ \E actor \in Actors, data \in MePatches : get_patch_user_info(actor, data)
    \/ \E actor \in Actors, data \in MePatches : get_me_data(actor, data)

SpecRoles == InitRoles /\ [][NextRoles]_vars

\* the step handled a request on /users/ or /users/{username}/
UserManagement ==
    resp'.request.op \in {"user_list", "user_get", "user_post", "patch_user",
                          "user_delete"}

\* the step refused the request for want of credentials or of rights
Refused == resp'.status \in {401, 403}

\* C14: a request is authorized by the role its user has in the store when
\* the request arrives, whatever the role was when the token was issued: a
\* user-management request is refused exactly when its actor is anonymous
\* or is not admin by the row of the user at that moment.
C14_RoleReadOnEveryRequest ==
    [][UserManagement =>
         (Refused <=> ~(/\ resp'.request.actor # Anonymous
                        /\ is_admin(TheActor(resp'.request.actor))))]_vars

\* the account that had the role admin when its token was issued was
\* refused after its role was changed
C14_Witness ==
    /\ Op \in {"user_list", "user_get", "user_post", "patch_user", "user_delete"}
    /\ resp.request.actor = Boss.pk
    /\ Boss.pk \in tokens
    /\ resp.status = 403
    /\ TheActor(Boss.pk).role # ADMIN

\* the step handled a PATCH of /users/me/
PatchMe == resp'.request.op = "patch_me" /\ resp'.request.actor # Anonymous

\* C15: a PATCH of /users/me/ leaves the role of the requester as it was,
\* whatever the role is and whatever the body holds, and a successful
\* answer carries that role.
C15_OwnRoleImmutable ==
    [][PatchMe =>
         LET before == TheActor(resp'.request.actor)
         IN  /\ \E after \in users' : /\ after.pk = before.pk
                                      /\ after.role = before.role
             /\ resp'.status = 200 => resp'.data.role = before.role]_vars

\* C18: a user-management request is let through exactly when its actor is
\* authenticated and has the role admin, the staff flag or the superuser
\* flag.
C18_AdminOnlyUserManagement ==
    [][UserManagement =>
         (~Refused <=> /\ resp'.request.actor # Anonymous
                       /\ LET user == TheActor(resp'.request.actor)
                          IN  \/ user.role = ADMIN
                              \/ user.is_staff
                              \/ user.is_superuser)]_vars


----------------------------------------------------------------------------
(* Roles across signup, token, /users/me/, user management and reviews *)

\* users/permissions.py: IsSuperUserOrIsAdmin.has_permission, with
\* User.is_admin of users/models.py
IsSuperUserOrIsAdmin(actor) ==
    /\ actor # Anonymous
    /\ TheActor(actor).is_superuser \/ is_admin_users(TheActor(actor))

\* users/views.py: UserViewSet.partial_update, PATCH /users/{username}/;
\* role is a writable field of users/serializers.py UserSerializer
UserViewSet_users_partial_update(actor, username, data) ==
    LET request == [op |-> "patch_user", view |-> "users.UserViewSet",
                    actor |-> actor, username |-> username, data |-> data]
    IN
    /\ actor = Anonymous \/ Authenticated(actor)
    /\ IF ~IsSuperUserOrIsAdmin(actor)
       THEN /\ users' = users
            /\ resp' = [request |-> request, status |-> permission_denied(actor),
                        body |-> {"detail"}]
       ELSE IF ByUsername(username) = {}
       THEN /\ users' = users
            /\ resp' = [request |-> request, status |-> 404, body |-> {"detail"}]
       ELSE LET user == TheUser(username)
                errors == UserSerializer_users_errors(user, data)
                saved == UserSerializer_update(user, data, TRUE)
            IN  IF errors # {}
                THEN /\ users' = users
                     /\ resp' = [request |-> request, status |-> 400,
                                 body |-> errors]
                ELSE /\ users' = (users \ {user}) \cup {saved}
                     /\ resp' = [request |-> request, status |-> 200,
                                 body |-> {"username", "email", "role"},
                                 data |-> [username |-> saved.username,
                                           email |-> saved.email,
                                           role |-> saved.role]]
    /\ UNCHANGED <<last_pk, outbox, tokens, exchanged, now>>
    /\ UNCHANGED <<reviewVars, catalogVars>>

\* the first account with the superuser flag alone
Inspector == [Superuser EXCEPT !.is_staff = FALSE]

\* one account holding a token, made by createsuperuser or with the
\* superuser flag alone, and one title
InitEscalation ==
    /\ users \in {{Superuser}, {Inspector}}
    /\ last_pk = 1
    /\ outbox = {}
    /\ tokens = {1}
    /\ exchanged = {}
    /\ now = 0
    /\ reviews = {}
    /\ last_review = 0
    /\ titles = {1}
    /\ inflight = {}
    /\ categories = {Book}
    /\ category_of = [t \in {1} |-> Book]
    /\ last_title = 1
    /\ comments = {}
    /\ last_comment = 0
    /\ resp = [request |-> [op |-> "init"], status |-> 0, body |-> {}]

\* signup and token for one new account, then every request that carries a
\* role, by every actor, and the posting of a review
NextEscalation ==
    \/ ApiUserSignup_post(Al, AlMail)
    \/ CreateUserViewSet_create(Al, AlMail)
    \/ \E code \in MailedCodes \cup {Junk(8)} : GetApiToken_post(Al, code)
    \/ \E actor \in Actors, data \in RolePatches : get_patch_user_info(actor, data)
    \/ \E actor \in Actors, data \in RolePatches : get_me_data(actor, data)
    \/ \E actor \in Actors, username \in {Root, Al}, data \in RolePatches :
           UserViewSet_partial_update(actor, username, data)
    \/ \E actor \in Actors, username \in {Root, Al}, data \in RolePatches :
           UserViewSet_users_partial_update(actor, username, data)
    \/ \E actor \in Actors :
           UserViewSet_create(actor, [username |-> DotName, email |-> OtherMail,
                                      role |-> MODERATOR])
    \/ \E actor \in Actors :
           ReviewViewSet_create("w1", actor, 1, [text |-> T1, score |-> MIN_SCORE])
    \/ ReviewViewSet_perform_create("w1")

SpecEscalation == InitEscalation /\ [][NextEscalation]_vars

\* the request of the step was made by an authenticated actor whose row, as
\* the request arrived, had the role admin, the staff flag or the superuser
\* flag
ActorIsAdmin ==
    /\ "actor" \in DOMAIN resp'.request
    /\ resp'.request.actor # Anonymous
    /\ is_admin_users(TheActor(resp'.request.actor))

\* C21: the role and the admin status of a stored user change only in a
\* step whose request was made by an actor who is admin at that moment; a
\* row made by signup has the role user and is not admin, and any other new
\* row is made by an admin.
C21_NoPrivilegeEscalation ==
    [][/\ \A u \in users, v \in users' :
            (/\ u.pk = v.pk
             /\ \/ u.role # v.role
                \/ is_admin_users(u) # is_admin_users(v)) => ActorIsAdmin
       /\ \A v \in users' :
            (\A u \in users : u.pk # v.pk) =>
                IF resp'.request.op = "signup"
                THEN v.role = USER /\ ~is_admin_users(v)
                ELSE ActorIsAdmin]_vars

\* the account made by signup holds a token, asked for the role admin on
\* /users/me/, was answered 200 and still has the role user
C21_Witness ==
    /\ Op = "patch_me"
    /\ resp.request.actor = 2
    /\ resp.request.data = [role |-> ADMIN]
    /\ resp.status = 200
    /\ \E u \in users : u.pk = 2 /\ u.role = USER /\ ~is_admin_users(u)
    /\ \E m \in outbox : m.user = 2

====
